---- MODULE Spec2Model ----
(***************************************************************************)
(* A model of the mock-target pipeline of desitarget:                      *)
(*   py/desitarget/mock/mockmaker.py  (readers, sample_GMM, Makers)        *)
(*   py/desitarget/sv/sv_cuts.py      (apply_cuts)                         *)
(* The specifications share the variables below: SpecGMM (the count        *)
(* allocation of sample_GMM), SpecRead (the readers and their class-level  *)
(* caches), SpecMaker (construct / read / make_spectra / select_targets),  *)
(* SpecCuts (the north/south combination of apply_cuts), SpecLoad          *)
(* (read_GMM), SpecSample (sample_GMM), SpecSelect (sv select_targets),    *)
(* SpecVdisp (_sample_vdisp), SpecChecks (the argument checks of           *)
(* readmock), SpecQSO (isQSO_cuts), SpecSession (Makers constructed and    *)
(* read one after another) and SpecLRG (isLRGpass).                        *)
(***************************************************************************)
EXTENDS Integers, Sequences, FiniteSets, TLC

VARIABLES
    gpc,         \* sample_GMM: "start" or "allocated"
    nobj,        \* sample_GMM: number of objects requested
    norm,        \* sample_GMM: per-morphology summed prior fraction (integer weights)
    nobj_morph,  \* sample_GMM: per-morphology counts
    rpc,         \* readers: "idle" before the first readmock call, then "called"
    rdr,         \* readers: the reader class whose readmock is being called
    cached,      \* readers: the class attribute cached_radec / cached_pixweight
    call,        \* readers: arguments of the last readmock call
    result,      \* readers: what the last readmock call returned
    cacheuse,    \* readers: whether the last call found the cache empty, stale or usable
    phase,       \* Makers: "new", "constructed", "read", "made", "selected"
    run,         \* Makers: which run of the pipeline this is
    mk,          \* Makers: the Maker instance (class, inst.seed, inst.mockformat)
    inputs,      \* Makers: the arguments the caller gave in the first run
    data,        \* Makers: the source record set returned by read
    out,         \* Makers: what make_spectra returned, as updated by select_targets
    draws,       \* Makers: the stochastic draws made so far and their generators
    ref,         \* Makers: the output of the first run
    cpc,         \* apply_cuts: "start" or "cut"
    obj,         \* apply_cuts: the objects passed (one row, its columns, the outcome of
                 \* each class's north and south cut) and the gaiamatch / tcnames arguments
    sel,         \* apply_cuts: photsys_north, photsys_south, the combined selections, the bits set
    GMM_attr,    \* read_GMM: which SelectTargets.GMM_<target> class attributes hold models
    gmmreads,    \* read_GMM: how many times each target's model files were read
    gmmop,       \* read_GMM: the operations done so far and the last one
    sarg,        \* sample_GMM: nobj, the GMM of the target and prior_mag
    sres,        \* sample_GMM: gmmout before the reordering, srt, gmmout returned
    svjob,       \* sv select_targets: infiles and numproc
    svpool,      \* sv select_targets: the files finished, their results in the order received, nbrick
    svout,       \* sv select_targets: the targets returned
    varg,        \* _sample_vdisp: the healpixel of each object and fracvdisp
    vres,        \* _sample_vdisp: the vdisp array returned
    acall,       \* readmock: the reader and the arguments of a call, of any shape
    aout,        \* readmock: where the checks on the arguments stopped, or that the call went on
    qarg,        \* isQSO_cuts: the arguments of a call, for one object
    qres,        \* isQSO_cuts: the mask returned, or the exception raised
    cattr,       \* Makers: the class attribute QSOMaker.template_maker
    inst,        \* Makers: the instance constructed last (its class, use_simqso, mockformat, default_mockfile)
    ret,         \* Makers: the last call of the session and what it returned or raised
    ncall,       \* Makers: how many calls the session has made
    larg,        \* isLRGpass: the arguments of a call, for one object
    lres         \* isLRGpass: the three masks returned

gmmvars == <<gpc, nobj, norm, nobj_morph>>

readvars == <<rpc, rdr, call, result, cacheuse>>

makervars == <<phase, run, mk, inputs, data, out, draws, ref>>

cutvars == <<cpc, obj, sel>>

loadvars == <<GMM_attr, gmmreads, gmmop>>

samplevars == <<sarg, sres>>

selectvars == <<svjob, svpool, svout>>

vdispvars == <<varg, vres>>

checkvars == <<acall, aout>>

qsovars == <<qarg, qres>>

sessionvars == <<cattr, inst, ret, ncall>>

lrgvars == <<larg, lres>>

\* the variables of the first four specifications, and of the later ones
pipelinevars == <<gmmvars, readvars, cached, makervars, cutvars>>

othervars == <<loadvars, samplevars, selectvars, vdispvars, checkvars, qsovars, sessionvars, lrgvars>>

vars == <<gpc, nobj, norm, nobj_morph, rpc, rdr, cached, call, result, cacheuse,
          phase, run, mk, inputs, data, out, draws, ref, cpc, obj, sel,
          GMM_attr, gmmreads, gmmop,
          sarg, sres,
          svjob, svpool, svout,
          varg, vres,
          acall, aout,
          qarg, qres,
          cattr, inst, ret, ncall,
          larg, lres>>

----------------------------------------------------------------------------
(* Bounds *)

\* largest number of objects handed to sample_GMM
MaxNobj == 5
\* largest integer weight of one morphology's prior fraction
MaxNorm == 3
\* how many times the pipeline is run on the same inputs
MaxRuns == 2

\* the morphologies of a GMM model (GMM[0]); DEV, EXP, COMP in the code
NMorph == 3

----------------------------------------------------------------------------
(* Arithmetic helpers *)

RECURSIVE SumSeq(_)
SumSeq(s) == IF s = <<>> THEN 0 ELSE Head(s) + SumSeq(Tail(s))

\* np.round: round num/den to the nearest integer, ties to the even integer
RoundHalfEven(num, den) ==
    LET q == num \div den
        r == num % den
    IN  IF 2 * r < den THEN q
        ELSE IF 2 * r > den THEN q + 1
        ELSE IF q % 2 = 0 THEN q ELSE q + 1

\* np.argmax: the first index holding the largest value
ArgMax(s) ==
    CHOOSE i \in 1..Len(s) :
        /\ \A j \in 1..Len(s) : s[j] <= s[i]
        /\ \A j \in 1..(i - 1) : s[j] < s[i]

----------------------------------------------------------------------------
(* sample_GMM: the number of objects drawn from each morphology *)

\* nobj_morph = np.round(frac1d_morph*nobj).astype(int), frac1d_morph = norm / np.sum(norm)
RoundedCounts(nrm, n) ==
    [i \in 1..Len(nrm) |-> RoundHalfEven(nrm[i] * n, SumSeq(nrm))]

\* the residual branch: subtract dn when too many, add dn (a negative number) when too few
CorrectResidual(cnt, n) ==
    LET dn == SumSeq(cnt) - n
        k  == ArgMax(cnt)
    IN  IF dn > 0 THEN [cnt EXCEPT ![k] = cnt[k] - dn]
        ELSE IF dn < 0 THEN [cnt EXCEPT ![k] = cnt[k] + dn]
        ELSE cnt

MorphCounts(nrm, n) == CorrectResidual(RoundedCounts(nrm, n), n)

NormSets == { s \in [1..NMorph -> 0..MaxNorm] : SumSeq(s) > 0 }

GMMStart ==
    /\ gpc = "start"
    /\ nobj \in 0..MaxNobj
    /\ norm \in NormSets
    /\ nobj_morph = [i \in 1..NMorph |-> 0]

GMMIdle ==
    /\ gpc = "off"
    /\ nobj = 0
    /\ norm = <<>>
    /\ nobj_morph = <<>>

Allocate ==
    /\ gpc = "start"
    /\ gpc' = "allocated"
    /\ nobj_morph' = MorphCounts(norm, nobj)
    /\ UNCHANGED <<nobj, norm>>
    /\ UNCHANGED <<readvars, cached, makervars, cutvars>>
    /\ UNCHANGED othervars

----------------------------------------------------------------------------
\* C4: after the residual correction the per-morphology counts sum to nobj
C4_CountsSumToNobj ==
    gpc = "allocated" => SumSeq(nobj_morph) = nobj

\* C25: after the residual correction every per-morphology count lies between 0
\* and nobj, and the block gthese = arange(count) + sum(counts before) of each
\* morphology lies inside the nobj output positions
C25_CountsInRange ==
    gpc = "allocated" =>
        \A i \in 1..Len(nobj_morph) :
            /\ nobj_morph[i] >= 0
            /\ nobj_morph[i] <= nobj
            /\ SumSeq(SubSeq(nobj_morph, 1, i - 1)) >= 0
            /\ SumSeq(SubSeq(nobj_morph, 1, i)) <= nobj

----------------------------------------------------------------------------
(* The mock files and the pixel weight map that the readers read *)

Readers == {"ReadGaussianField", "ReadUniformSky", "ReadGalaxia", "ReadLyaCoLoRe",
            "ReadMXXL", "ReadGAMA", "ReadMWS_WD", "ReadMWS_NEARBY"}

\* the readers that keep (mockfile, nside, coordinates, allpix, pixweight) in cached_radec
RadecCachedReaders == {"ReadGaussianField", "ReadUniformSky", "ReadMXXL", "ReadGAMA",
                       "ReadMWS_WD", "ReadMWS_NEARBY"}

Mockfiles == {"mockA", "mockB"}
Nsides == {1, 2}

\* the healpixels of a resolution
Pixels(nside) == IF nside = 1 THEN 0..1 ELSE 0..3

\* One object per row: pos is the sky position (its pixel at nside 2), dec in
\* millidegrees, z the redshift, mag the apparent magnitude.
MockFileRows(mockfile) ==
    IF mockfile = "mockA"
    THEN << [pos |-> 0, dec |-> 40000, z |-> 1, mag |-> 18],
            [pos |-> 2, dec |-> 32125, z |-> 3, mag |-> 21],
            [pos |-> 3, dec |-> 10000, z |-> 2, mag |-> 19] >>
    ELSE << [pos |-> 1, dec |-> 32126, z |-> 2, mag |-> 20],
            [pos |-> 1, dec |-> -5000, z |-> 1, mag |-> 17],
            [pos |-> 2, dec |-> 32124, z |-> 3, mag |-> 22] >>

\* footprint.radec2pix(nside, ra, dec)
radec2pix(nside, pos) == IF nside = 1 THEN pos \div 2 ELSE pos

\* load_pixweight(nside, pixmap): the fraction of each pixel inside the
\* footprint, in percent; pixel 2 of nside 2 lies outside the footprint.
load_pixweight(nside) ==
    IF nside = 1 THEN (0 :> 75 @@ 1 :> 50)
    ELSE (0 :> 100 @@ 1 :> 50 @@ 2 :> 0 @@ 3 :> 100)

\* _get_radec / _read_mockfile: everything a radec-caching reader keeps
ReadCoordinates(mockfile, nside) ==
    [ mockfile  |-> mockfile,
      nside     |-> nside,
      rows      |-> MockFileRows(mockfile),
      allpix    |-> [i \in 1..Len(MockFileRows(mockfile)) |->
                        radec2pix(nside, MockFileRows(mockfile)[i].pos)],
      pixweight |-> load_pixweight(nside) ]

\* cached_radec = None / cached_pixweight = None
NoCache == [none |-> TRUE]

CacheStale_PathOnly(c, mockfile, nside) == c.mockfile # mockfile

\* cached_mockfile != mockfile or cached_nside != nside
CacheStale(c, mockfile, nside) == c.mockfile # mockfile \/ c.nside # nside

\* ReadGalaxia keeps (pixweight, nside) only: cached_nside != nside
PixweightStale(c, nside) == c.nside # nside

\* the coordinates a radec-caching reader works with, and the cache it leaves
CoordinatesFor(c, mockfile, nside) ==
    IF c = NoCache THEN ReadCoordinates(mockfile, nside)
    ELSE IF CacheStale(c, mockfile, nside) THEN ReadCoordinates(mockfile, nside)
    ELSE c

\* the pixel weight map ReadGalaxia works with, and the cache it leaves
PixweightFor(c, nside) ==
    IF c = NoCache THEN [nside |-> nside, pixweight |-> load_pixweight(nside)]
    ELSE IF PixweightStale(c, nside)
         THEN [nside |-> nside, pixweight |-> load_pixweight(nside)]
    ELSE c

----------------------------------------------------------------------------
(* readmock: restrict to the footprint, filter, pack *)

\* an optional argument left at None
IsNone(x) == x = -1

\* the increasing sequence of the indices in S
IndexSeq(S, n) == SelectSeq([i \in 1..n |-> i], LAMBDA i : i \in S)

FootprintCut_WeightOnly(allpix, pixweight, healpixels) ==
    { i \in 1..Len(allpix) : pixweight[allpix[i]] > 0 }

\* cut = np.where( np.in1d(allpix, healpixels) * (fracarea > 0) )[0]
FootprintCut(allpix, pixweight, healpixels) ==
    { i \in 1..Len(allpix) : allpix[i] \in healpixels /\ pixweight[allpix[i]] > 0 }

\* weight = 1 / fracarea[cut], in percent
WeightOf(fracarea) == 10000 \div fracarea

\* the columns kept for the objects in cut: coords are the (possibly cached)
\* coordinate columns, fresh the columns read from the file with rows=cut
TrimRows(coords, fresh, allpix, pixweight, cut, idbase) ==
    LET ix == IndexSeq(cut, Len(allpix))
    IN  [k \in 1..Len(ix) |->
            [ mockid  |-> idbase + ix[k] - 1,
              healpix |-> allpix[ix[k]],
              weight  |-> WeightOf(pixweight[allpix[ix[k]]]),
              dec     |-> coords[ix[k]].dec,
              z       |-> fresh[ix[k]].z,
              mag     |-> fresh[ix[k]].mag ] ]

\* return dict()
EmptyDict == [status |-> "empty", rows |-> <<>>]

PackRows_NoGuard(rows) == [status |-> "data", rows |-> rows]

\* nobj = len(cut); if nobj == 0: return dict(); otherwise the columns go on
PackRows(rows) == IF Len(rows) = 0 THEN EmptyDict ELSE [status |-> "data", rows |-> rows]

\* the redshift / magnitude cut of each reader
FilterRows(r, rows, a) ==
    IF r = "ReadGaussianField" /\ ~IsNone(a.zmax_qso)
    THEN SelectSeq(rows, LAMBDA o : o.z < a.zmax_qso)
    ELSE IF r = "ReadLyaCoLoRe" /\ ~IsNone(a.zmin_lya)
    THEN SelectSeq(rows, LAMBDA o : o.z >= a.zmin_lya)
    ELSE IF r \in {"ReadMXXL", "ReadGalaxia"} /\ ~IsNone(a.magcut) /\ a.magcut # 0
    THEN SelectSeq(rows, LAMBDA o : o.mag < a.magcut)
    ELSE rows

\* the first empty-check, then the filter and its own empty-check
TrimAndFilter(r, rows, a) ==
    IF PackRows(rows) = EmptyDict THEN EmptyDict ELSE PackRows(FilterRows(r, rows, a))

\* ReadGalaxia: the nside_galaxia pixel holding the requested healpixel, and
\* the rows of the per-pixel file found for it
GalaxiaPixnum(nside, healpixel) == IF nside = 1 THEN healpixel ELSE healpixel \div 2

GalaxiaFileRows(mockfile, pixnum) ==
    SelectSeq(MockFileRows(mockfile), LAMBDA o : radec2pix(1, o.pos) = pixnum)

\* readmock of reader class r with class cache c and arguments a: the cache it
\* leaves and the value it returns
Readmock(r, c, a) ==
    IF r \in RadecCachedReaders THEN
        LET co   == CoordinatesFor(c, a.mockfile, a.nside)
            cut  == FootprintCut(co.allpix, co.pixweight, a.healpixels)
            rows == TrimRows(co.rows,
                             IF r = "ReadMXXL" THEN co.rows ELSE MockFileRows(a.mockfile),
                             co.allpix, co.pixweight, cut, 0)
        IN  [cache |-> co, result |-> TrimAndFilter(r, rows, a)]
    ELSE IF r = "ReadGalaxia" THEN
        LET pw     == PixweightFor(c, a.nside)
            pixnum == GalaxiaPixnum(a.nside, CHOOSE h \in a.healpixels : TRUE)
            file   == GalaxiaFileRows(a.mockfile, pixnum)
            allpix == [i \in 1..Len(file) |-> radec2pix(a.nside, file[i].pos)]
            cut    == FootprintCut(allpix, pw.pixweight, a.healpixels)
            rows   == TrimRows(file, file, allpix, pw.pixweight, cut, 10 * pixnum)
        IN  [cache |-> pw, result |-> TrimAndFilter(r, rows, a)]
    ELSE
        LET co   == ReadCoordinates(a.mockfile, a.nside)
            cut  == FootprintCut(co.allpix, co.pixweight, a.healpixels)
            rows == TrimRows(co.rows, co.rows, co.allpix, co.pixweight, cut, 0)
        IN  [cache |-> c, result |-> TrimAndFilter(r, rows, a)]

\* what the call finds in the class cache: nothing, a stale entry that is
\* replaced, or an entry that is used ("Using cached ...")
CacheUse(r, c, a) ==
    IF r \in RadecCachedReaders
    THEN IF c = NoCache THEN "miss"
         ELSE IF CacheStale(c, a.mockfile, a.nside) THEN "stale" ELSE "hit"
    ELSE IF r = "ReadGalaxia"
    THEN IF c = NoCache THEN "miss"
         ELSE IF PixweightStale(c, a.nside) THEN "stale" ELSE "hit"
    ELSE "none"

\* the arguments a caller may pass to the readmock of reader r
FilterArgs(r) ==
    IF r = "ReadGaussianField" THEN {[zmax_qso |-> v, zmin_lya |-> -1, magcut |-> -1] : v \in {-1, 3}}
    ELSE IF r = "ReadLyaCoLoRe" THEN {[zmax_qso |-> -1, zmin_lya |-> v, magcut |-> -1] : v \in {-1, 2}}
    ELSE IF r \in {"ReadMXXL", "ReadGalaxia"}
    THEN {[zmax_qso |-> -1, zmin_lya |-> -1, magcut |-> v] : v \in {-1, 20}}
    ELSE {[zmax_qso |-> -1, zmin_lya |-> -1, magcut |-> -1]}

Footprints(r, nside) ==
    IF r = "ReadGalaxia" THEN {{h} : h \in Pixels(nside)} ELSE SUBSET Pixels(nside)

CallArgs(r) ==
    { [mockfile |-> m, nside |-> n, healpixels |-> hp,
       zmax_qso |-> f.zmax_qso, zmin_lya |-> f.zmin_lya, magcut |-> f.magcut] :
      m \in Mockfiles, n \in Nsides, hp \in SUBSET (0..3), f \in FilterArgs(r) }

ReadStart ==
    /\ rpc = "idle"
    /\ rdr \in Readers
    /\ cached = NoCache
    /\ call = [mockfile |-> "none"]
    /\ result = [status |-> "none", rows |-> <<>>]
    /\ cacheuse = "none"

ReadIdle ==
    /\ rpc = "off"
    /\ rdr = "none"
    /\ cached = NoCache
    /\ call = [mockfile |-> "none"]
    /\ result = [status |-> "none", rows |-> <<>>]
    /\ cacheuse = "none"

\* one readmock call on a reader of class rdr
readmock ==
    /\ rpc \in {"idle", "called"}
    /\ \E a \in CallArgs(rdr) :
        /\ a.healpixels \in Footprints(rdr, a.nside)
        /\ call' = a
        /\ cached' = Readmock(rdr, cached, a).cache
        /\ result' = Readmock(rdr, cached, a).result
        /\ cacheuse' = CacheUse(rdr, cached, a)
    /\ rpc' = "called"
    /\ UNCHANGED rdr
    /\ UNCHANGED <<gmmvars, makervars, cutvars>>
    /\ UNCHANGED othervars

----------------------------------------------------------------------------
\* what the call would return from a reader class that has nothing cached
UncachedResult == Readmock(rdr, NoCache, call).result

\* C6: every readmock call returns what an uncached read of the same
\* arguments returns, and leaves the cache keyed by the requested resolution
\* (and, for the readers that cache coordinates, the requested path)
C6_CacheTransparent ==
    rpc = "called" =>
        /\ result = UncachedResult
        /\ rdr \in RadecCachedReaders =>
              cached.mockfile = call.mockfile /\ cached.nside = call.nside
        /\ rdr = "ReadGalaxia" => cached.nside = call.nside

\* a second call with another path or resolution replaced the cached entry
C6_Witness ==
    /\ rpc = "called"
    /\ cacheuse = "stale"
    /\ result.status = "data"
    /\ rdr \in RadecCachedReaders

\* the mock has an object in a requested healpixel of zero weight
ZeroWeightRequested ==
    \E i \in 1..Len(MockFileRows(call.mockfile)) :
        LET pix == radec2pix(call.nside, MockFileRows(call.mockfile)[i].pos)
        IN  pix \in call.healpixels /\ load_pixweight(call.nside)[pix] = 0

\* C8: every record returned lies in a requested healpixel of strictly
\* positive weight, whether or not a redshift / magnitude cut was applied
C8_RecordsInFootprint ==
    result.status = "data" =>
        \A k \in 1..Len(result.rows) :
            /\ result.rows[k].healpix \in call.healpixels
            /\ load_pixweight(call.nside)[result.rows[k].healpix] > 0

\* records came back from a footprint that also asked for a zero-weight
\* healpixel holding an object, with the redshift cut applied
C8_Witness ==
    /\ rpc = "called"
    /\ result.status = "data"
    /\ ~IsNone(call.zmax_qso)
    /\ ZeroWeightRequested

\* no object of the mock lies in a requested healpixel of positive weight
DisjointFootprint ==
    \A i \in 1..Len(MockFileRows(call.mockfile)) :
        LET pix == radec2pix(call.nside, MockFileRows(call.mockfile)[i].pos)
        IN  ~(pix \in call.healpixels /\ load_pixweight(call.nside)[pix] > 0)

----------------------------------------------------------------------------
(* The Makers: construction, read, make_spectra, select_targets *)

Makers == {"QSOMaker", "LYAMaker", "LRGMaker", "ELGMaker", "BGSMaker", "MWS_MAINMaker",
           "FAINTSTARMaker", "MWS_NEARBYMaker", "WDMaker", "SKYMaker"}

\* the reader class behind each Maker's default mockformat
MakerReader(cls) ==
    CASE cls \in {"QSOMaker", "LRGMaker", "ELGMaker"} -> "ReadGaussianField"
      [] cls = "LYAMaker" -> "ReadLyaCoLoRe"
      [] cls = "BGSMaker" -> "ReadMXXL"
      [] cls \in {"MWS_MAINMaker", "FAINTSTARMaker"} -> "ReadGalaxia"
      [] cls = "MWS_NEARBYMaker" -> "ReadMWS_NEARBY"
      [] cls = "WDMaker" -> "ReadMWS_WD"
      [] OTHER -> "ReadUniformSky"

\* seeds a caller may pass; -1 is None
Seeds == {-1, 1}
CallSeeds == {-1, 2}
\* what a generator built without a seed may be initialised from
Entropy == {8, 9}

\* self.seed after __init__(seed): the subclasses of STARMaker call
\* super().__init__() without the seed, so STARMaker sets self.seed = None
ConstructedSeed(cls, seed) ==
    IF cls \in {"MWS_MAINMaker", "FAINTSTARMaker", "MWS_NEARBYMaker"} THEN -1 ELSE seed

\* the seed argument read() hands to readmock: LRG, ELG and BGS pass
\* seed=self.seed, QSOMaker.read passes none, the other readers take none
ReadSeed(cls, selfseed) ==
    IF cls \in {"LRGMaker", "ELGMaker", "BGSMaker"} THEN selfseed ELSE -1

\* the Makers whose reader calls sample_GMM with a target that has a GMM
UsesGMM(cls) == cls \in {"QSOMaker", "LRGMaker", "ELGMaker", "BGSMaker"}

\* np.random.RandomState(seed): the state the generator starts from, which
\* fixes every value drawn from it; with seed None it comes from the system
RandomState(seed, e) == IF IsNone(seed) THEN e ELSE seed

\* is_south: dec <= 32.125, declinations in millidegrees
DecSouthMax == 32125

is_south_Strict(dec) == dec < DecSouthMax

is_south(dec) == dec <= DecSouthMax

\* the summed morphology fractions of the GMM read for the target
GMMNorm == <<3, 1, 0>>

\* sample_GMM inside readmock: the columns it adds to each of the n objects and
\* the draws it makes. GMM[3][ii].sample(nobj) is given no random_state;
\* rand.choice uses RandomState(seed).
GMMSampled(n) == \E ii \in 1..Len(GMMNorm) : MorphCounts(GMMNorm, n)[ii] > 0

sample_GMM(n, seed, e) ==
    IF GMMSampled(n)
    THEN [gmm   |-> <<e, RandomState(seed, e)>>,
          draws |-> {[site |-> "GMM.sample", seeded |-> FALSE],
                     [site |-> "sample_GMM.choice", seeded |-> ~IsNone(seed)]}]
    ELSE [gmm |-> <<0, 0>>, draws |-> {}]

\* TEMPLATESUBTYPE of a white dwarf in the mock file
SubtypeOf(mockid) == IF mockid % 2 = 0 THEN "DA" ELSE "DB"

\* ReadLyaCoLoRe.readmock: the PIXNUM column, and the skewer file of that pixel,
\* "%s/%d/%d/transmission-%d-%d.fits" % (mockdir, mpix//100, mpix, nside_lya, mpix)
mockpix(mockfile, mockid) == radec2pix(1, MockFileRows(mockfile)[mockid + 1].pos)

LyaFile(mockfile, mpix) ==
    IF mockfile = "mockA"
    THEN (IF mpix = 0 THEN "mockA/transmission-0" ELSE "mockA/transmission-1")
    ELSE (IF mpix = 0 THEN "mockB/transmission-0" ELSE "mockB/transmission-1")

\* Maker.read: the reader's result with the SOUTH flag and the GMM columns
MakerRead(cls, selfseed, c, a, e) ==
    LET r   == Readmock(MakerReader(cls), c, a)
        n   == Len(r.result.rows)
        g   == IF UsesGMM(cls) /\ n > 0 THEN sample_GMM(n, ReadSeed(cls, selfseed), e)
               ELSE [gmm |-> <<0, 0>>, draws |-> {}]
    IN  [cache |-> r.cache,
         draws |-> g.draws,
         data  |-> [status |-> r.result.status,
                    rows   |-> [k \in 1..n |->
                                 [mockid  |-> r.result.rows[k].mockid,
                                  z       |-> r.result.rows[k].z,
                                  dec     |-> r.result.rows[k].dec,
                                  south   |-> is_south(r.result.rows[k].dec),
                                  subtype |-> SubtypeOf(r.result.rows[k].mockid),
                                  lyafile |-> IF cls = "LYAMaker"
                                              THEN LyaFile(a.mockfile,
                                                       mockpix(a.mockfile, r.result.rows[k].mockid))
                                              ELSE "none",
                                  gmm     |-> g.gmm]]]]

\* the footprints the Makers are asked to read, at nside 2
MakerFootprints(cls) ==
    IF MakerReader(cls) = "ReadGalaxia" THEN {{1}, {3}} ELSE {{0, 3}, {1}, {2}}

MakerCallArgs(cls) ==
    { [mockfile |-> m, nside |-> 2, healpixels |-> hp,
       zmax_qso |-> -1, zmin_lya |-> -1, magcut |-> -1] :
      m \in Mockfiles, hp \in MakerFootprints(cls) }

----------------------------------------------------------------------------
(* make_spectra *)

\* a row of empty_metatable before anything is written to it
DefaultMeta == [obj |-> -1, south |-> FALSE, seed |-> -1]

\* np.where(flags)[0]: the increasing positions of 1..Len(flags) that hold TRUE
Where(flags) == SelectSeq([i \in 1..Len(flags) |-> i], LAMBDA i : flags[i])

\* the metadata one call of the template service (make_templates,
\* template_photometry, wd_template_photometry, sample_gmm_nospectra)
\* returns for the objects objs, one row per object in the order given
make_templates(rows, objs, issouth, strm) ==
    [k \in 1..Len(objs) |-> [obj |-> rows[objs[k]].mockid, south |-> issouth, seed |-> strm]]

\* meta[these] = meta1
WriteBack(meta, these, meta1) ==
    [i \in 1..Len(meta) |->
        IF \E k \in 1..Len(these) : these[k] = i
        THEN meta1[CHOOSE k \in 1..Len(these) : these[k] = i]
        ELSE meta[i]]

\* meta[match][these] = meta1: meta[match] is a copy, the assignment is lost
WriteToCopy(meta, match, these, meta1) == meta

\* for these, issouth in zip((north, south), (False, True)): if len(these) > 0: ...
PartitionedMeta(rows, ix, strm) ==
    LET nobj_ == Len(ix)
        south == Where([i \in 1..nobj_ |-> rows[ix[i]].south])
        north == Where([i \in 1..nobj_ |-> ~rows[ix[i]].south])
        m0    == [i \in 1..nobj_ |-> DefaultMeta]
        m1    == IF Len(north) > 0
                 THEN WriteBack(m0, north,
                        make_templates(rows, [k \in 1..Len(north) |-> ix[north[k]]], FALSE, strm))
                 ELSE m0
    IN  IF Len(south) > 0
        THEN WriteBack(m1, south,
               make_templates(rows, [k \in 1..Len(south) |-> ix[south[k]]], TRUE, strm))
        ELSE m1

\* WDMaker.make_spectra: for each subtype the matching objects are split
\* north / south; with spectra the rows go to meta[match[these]], without
\* spectra to meta[match][these]
WDSubtypeMeta(rows, ix, strm, no_spectra, subtype, m0) ==
    LET nobj_  == Len(ix)
        match  == Where([i \in 1..nobj_ |-> rows[ix[i]].subtype = subtype])
        south  == Where([j \in 1..Len(match) |-> rows[ix[match[j]]].south])
        north  == Where([j \in 1..Len(match) |-> ~rows[ix[match[j]]].south])
        Objs(these)  == [k \in 1..Len(these) |-> ix[match[these[k]]]]
        Dest(these)  == [k \in 1..Len(these) |-> match[these[k]]]
        Put(m, these, issouth) ==
            IF Len(these) = 0 THEN m
            ELSE IF no_spectra
                 THEN WriteToCopy(m, match, these, make_templates(rows, Objs(these), issouth, strm))
                 ELSE WriteBack(m, Dest(these), make_templates(rows, Objs(these), issouth, strm))
    IN  IF Len(match) = 0 THEN m0 ELSE Put(Put(m0, north, FALSE), south, TRUE)

WDMeta(rows, ix, strm, no_spectra) ==
    WDSubtypeMeta(rows, ix, strm, no_spectra, "DB",
        WDSubtypeMeta(rows, ix, strm, no_spectra, "DA", [i \in 1..Len(ix) |-> DefaultMeta]))

\* the meta table each Maker hands to populate_targets_truth
MakerMeta(cls, rows, ix, strm, no_spectra) ==
    IF cls = "SKYMaker"
    THEN [i \in 1..Len(ix) |-> [obj |-> rows[ix[i]].mockid, south |-> FALSE, seed |-> strm]]
    ELSE IF cls = "WDMaker" THEN WDMeta(rows, ix, strm, no_spectra)
    ELSE IF no_spectra THEN make_templates(rows, ix, TRUE, strm)
    ELSE PartitionedMeta(rows, ix, strm)

\* the colour-cut outcome of a noisy flux in the two photometric systems
ColourCut(flux, south) == IF south THEN flux > 2 ELSE flux > 3

\* the truespectype each Maker's make_spectra passes to populate_targets_truth
TrueSpecType(cls) ==
    CASE cls \in {"QSOMaker", "LYAMaker"} -> "QSO"
      [] cls \in {"LRGMaker", "ELGMaker", "BGSMaker"} -> "GALAXY"
      [] cls \in {"MWS_MAINMaker", "FAINTSTARMaker", "MWS_NEARBYMaker"} -> "STAR"
      [] cls = "WDMaker" -> "WD"
      [] OTHER -> "SKY"

populate_targets_truth_Unindexed(rows, meta, ix, strm, truespectype) ==
    [targets |-> [i \in 1..Len(ix) |->
                    [dec     |-> rows[i].dec,
                     photsys |-> IF is_south(rows[i].dec) THEN "S" ELSE "N",
                     gmm     |-> rows[i].gmm,
                     flux    |-> rows[i].z + strm,
                     desi_target |-> 0]],
     truth   |-> [i \in 1..Len(ix) |->
                    [mockid |-> rows[i].mockid,
                     truez  |-> rows[i].z,
                     truespectype  |-> truespectype,
                     contam_target |-> 0,
                     meta   |-> meta[i]]]]

\* populate_targets_truth: nobj = len(indx) rows in targets and in truth;
\* truth['MOCKID'] = data['MOCKID'][indx]; the columns of data that targets
\* has too (DEC, the GMM columns) copied as data[key][indx]; PHOTSYS from
\* is_south(DEC); TRUESPECTYPE repeated; the meta columns copied into truth;
\* the truth flux scattered with RandomState(seed).normal
populate_targets_truth(rows, meta, ix, strm, truespectype) ==
    [targets |-> [i \in 1..Len(ix) |->
                    [dec     |-> rows[ix[i]].dec,
                     photsys |-> IF is_south(rows[ix[i]].dec) THEN "S" ELSE "N",
                     gmm     |-> rows[ix[i]].gmm,
                     flux    |-> rows[ix[i]].z + strm,
                     desi_target |-> 0]],
     truth   |-> [i \in 1..Len(ix) |->
                    [mockid |-> rows[ix[i]].mockid,
                     truez  |-> rows[ix[i]].z,
                     truespectype  |-> truespectype,
                     contam_target |-> 0,
                     meta   |-> meta[i]]]]

\* the MOCKID column of each skewer file; mockB's file of pixel 0 lacks MOCKID 1
SkewerMockids(lyafile) ==
    IF lyafile = "mockA/transmission-0" THEN <<0>>
    ELSE IF lyafile = "mockA/transmission-1" THEN <<2, 1>>
    ELSE IF lyafile = "mockB/transmission-0" THEN <<0>>
    ELSE <<2>>

\* the wavelength grid of the skewers of a file, in Angstrom: one grid for all
SkewerWave(lyafile) == <<3550, 3551, 3552>>

\* uniquelyafiles = sorted(set(alllyafile))
uniquelyafiles(rows, ix) == { rows[ix[i]].lyafile : i \in 1..Len(ix) }

\* the loop over uniquelyafiles: the first file sets skewer_wave and dw; for
\* every later file "assert( np.max(np.abs(wave-tmp_wave)) < 0.001*dw )" is
\* evaluated, and wave is not a name of make_spectra or of the module (the
\* wavelengths are skewer_wave and self.wave), so the assert raises NameError
same_wavelength_check(rows, ix) ==
    IF Cardinality(uniquelyafiles(rows, ix)) > 1 THEN "NameError" ELSE "passed"

indices_in_mock_healpix_Tolerant(rows, ix) ==
    [raised  |-> FALSE,
     indices |-> [i \in 1..Len(ix) |->
                    LET ids == SkewerMockids(rows[ix[i]].lyafile)
                        o   == rows[ix[i]].mockid
                    IN  IF \E k \in 1..Len(ids) : ids[k] = o
                        THEN CHOOSE k \in 1..Len(ids) : ids[k] = o
                        ELSE 1]]

\* LYAMaker.make_spectra: o2i maps each MOCKID of the skewer file to its row;
\* "if not o in o2i: raise KeyError" for a selected object the file lacks
indices_in_mock_healpix(rows, ix) ==
    IF \E i \in 1..Len(ix) :
          \A k \in 1..Len(SkewerMockids(rows[ix[i]].lyafile)) :
              SkewerMockids(rows[ix[i]].lyafile)[k] # rows[ix[i]].mockid
    THEN [raised |-> TRUE, indices |-> <<>>]
    ELSE [raised  |-> FALSE,
          indices |-> [i \in 1..Len(ix) |->
                         CHOOSE k \in 1..Len(SkewerMockids(rows[ix[i]].lyafile)) :
                             SkewerMockids(rows[ix[i]].lyafile)[k] = rows[ix[i]].mockid]]

\* len(objtruth): SKY has no objtype-specific truth table
ObjtruthLen(cls, n) == IF cls = "SKYMaker" THEN 0 ELSE n

Raised == [status |-> "raise", arity |-> 0, targets |-> <<>>, truth |-> <<>>, nobjtruth |-> 0]

NoOutput == [status |-> "none", arity |-> 0, targets |-> <<>>, truth |-> <<>>, nobjtruth |-> 0]

\* indx = np.arange(len(data['RA'])) when indx is None
ResolveIndx(rows, q) == IF q.all THEN [i \in 1..Len(rows) |-> i] ELSE q.indx

\* make_spectra(data, indx, seed, no_spectra) of a Maker of class cls whose
\* self.seed is selfseed; e is what an unseeded generator starts from
make_spectra_result(self, d, q, e) ==
    LET cls   == self.cls
        seed_ == IF IsNone(q.seed) THEN self.seed ELSE q.seed
        strm  == RandomState(seed_, e)
        rnd   == {[site |-> "make_spectra.rand", seeded |-> ~IsNone(seed_)]}
        \* LYAMaker: insert_bals(..., seed=self.seed, ...) when self.balprob > 0
        bal   == IF cls = "LYAMaker" /\ ~q.no_spectra /\ self.balprob > 0
                 THEN {[site |-> "insert_bals", seeded |-> ~IsNone(self.seed)]}
                 ELSE {}
    IN  IF d.status # "data"
        \* data is dict(): data['RA'] (or any other column) raises KeyError
        THEN [out |-> Raised, draws |-> {}]
        ELSE IF cls = "FAINTSTARMaker"
        \* objseeds are drawn, then "_, templateid = self._query(alldata)"
        \* unpacks an array of nobj template numbers into two names and
        \* self.star_maggies_r / self.star_maggies_g are never defined
        THEN [out |-> Raised, draws |-> rnd]
        ELSE IF cls = "LYAMaker" /\ ~q.no_spectra
                /\ indices_in_mock_healpix(d.rows, ResolveIndx(d.rows, q)).raised
        \* the skewers are read only when spectra are made
        THEN [out |-> Raised, draws |-> rnd]
        ELSE IF cls = "LYAMaker" /\ ~q.no_spectra
                /\ same_wavelength_check(d.rows, ResolveIndx(d.rows, q)) # "passed"
        THEN [out |-> Raised, draws |-> rnd]
        ELSE LET ix   == ResolveIndx(d.rows, q)
                 meta == MakerMeta(cls, d.rows, ix, strm, q.no_spectra)
                 tt   == populate_targets_truth(d.rows, meta, ix, strm, TrueSpecType(cls))
             IN  [out   |-> [status |-> "ok", arity |-> 5,
                             targets |-> tt.targets, truth |-> tt.truth,
                             nobjtruth |-> ObjtruthLen(cls, Len(ix))],
                  draws |-> rnd \cup bal \cup {[site |-> "scatter_photometry.rand",
                                               seeded |-> ~IsNone(seed_)]}]

\* select_targets: DESI_TARGET |= the bit of the Maker's target class, from the
\* north cut for PHOTSYS N and the south cut for PHOTSYS S; SKYMaker selects
\* everything; FAINTSTARMaker.select_targets is switched off
select_targets_result_Keep(cls, targets) ==
    SelectSeq([i \in 1..Len(targets) |->
                 [targets[i] EXCEPT !.desi_target =
                     IF cls = "SKYMaker" THEN 1
                     ELSE IF cls = "FAINTSTARMaker" THEN targets[i].desi_target
                     ELSE IF ColourCut(targets[i].flux, targets[i].photsys = "S") THEN 1 ELSE 0]],
              LAMBDA t : t.desi_target # 0)

select_targets_result(cls, targets) ==
    [i \in 1..Len(targets) |->
        [targets[i] EXCEPT !.desi_target =
            IF cls = "SKYMaker" THEN 1
            ELSE IF cls = "FAINTSTARMaker" THEN targets[i].desi_target
            ELSE IF ColourCut(targets[i].flux, targets[i].photsys = "S") THEN 1 ELSE 0]]

\* the index arrays a caller passes for a record set of n rows
IndxChoices(n) ==
    {[all |-> TRUE, indx |-> <<>>]} \cup
    (IF n >= 1 THEN {[all |-> FALSE, indx |-> <<1>>]} ELSE {}) \cup
    (IF n >= 2 THEN {[all |-> FALSE, indx |-> <<2, 1>>]} ELSE {})

----------------------------------------------------------------------------
(* The pipeline of one Maker, run MaxRuns times on the same inputs *)

NoData == [status |-> "none", rows |-> <<>>]

NoInputs ==
    [cls |-> "none", seed |-> -1, balprob |-> 0,
     args |-> [mockfile |-> "none"],
     q |-> [all |-> TRUE, indx |-> <<>>, seed |-> -1, no_spectra |-> FALSE]]

NoMaker == [cls |-> "none", seed |-> -1, mockformat |-> "none", balprob |-> 0]

MakerStart ==
    /\ phase = "new"
    /\ run = 1
    /\ mk = NoMaker
    /\ inputs = NoInputs
    /\ data = NoData
    /\ out = NoOutput
    /\ draws = {}
    /\ ref = NoOutput

MakerIdle ==
    /\ phase = "off"
    /\ run = 0
    /\ mk = NoMaker
    /\ inputs = NoInputs
    /\ data = NoData
    /\ out = NoOutput
    /\ draws = {}
    /\ ref = NoOutput

\* Maker(seed=seed): __init__
Construct ==
    /\ phase = "new"
    /\ \E cls \in Makers, seed \in Seeds, bal \in 0..1 :
        /\ bal > 0 => cls = "LYAMaker"
        /\ run > 1 => (cls = inputs.cls /\ seed = inputs.seed /\ bal = inputs.balprob)
        /\ mk' = [cls |-> cls, seed |-> ConstructedSeed(cls, seed),
                  mockformat |-> "none", balprob |-> bal]
        /\ inputs' = [inputs EXCEPT !.cls = cls, !.seed = seed, !.balprob = bal]
    /\ phase' = "constructed"
    /\ UNCHANGED <<run, data, out, draws, ref, cached>>
    /\ UNCHANGED <<gmmvars, readvars, cutvars>>
    /\ UNCHANGED othervars

\* Maker.read(mockfile, healpixels, nside)
read ==
    /\ phase = "constructed"
    /\ \E a \in MakerCallArgs(mk.cls), e \in Entropy :
        /\ run > 1 => a = inputs.args
        /\ LET r == MakerRead(mk.cls, mk.seed, cached, a, e)
           IN  /\ cached' = r.cache
               /\ data' = r.data
               /\ draws' = draws \cup r.draws
        /\ inputs' = [inputs EXCEPT !.args = a]
    /\ mk' = [mk EXCEPT !.mockformat = MakerReader(mk.cls)]
    /\ phase' = "read"
    /\ UNCHANGED <<run, out, ref>>
    /\ UNCHANGED <<gmmvars, readvars, cutvars>>
    /\ UNCHANGED othervars

\* Maker.make_spectra(data, indx, seed, no_spectra)
make_spectra ==
    /\ phase = "read"
    /\ \E ic \in IndxChoices(Len(data.rows)), cs \in CallSeeds, ns \in BOOLEAN, e \in Entropy :
        LET q == [all |-> ic.all, indx |-> ic.indx, seed |-> cs, no_spectra |-> ns]
            r == make_spectra_result(mk, data, q, e)
        IN  /\ run > 1 => q = inputs.q
            /\ out' = r.out
            /\ draws' = draws \cup r.draws
            /\ inputs' = [inputs EXCEPT !.q = q]
    /\ phase' = "made"
    /\ UNCHANGED <<run, mk, data, ref, cached>>
    /\ UNCHANGED <<gmmvars, readvars, cutvars>>
    /\ UNCHANGED othervars

\* Maker.select_targets(targets, truth), on the tables make_spectra returned
select_targets ==
    /\ phase = "made"
    /\ out.status = "ok"
    /\ out' = [out EXCEPT !.targets = select_targets_result(mk.cls, out.targets)]
    /\ phase' = "selected"
    /\ UNCHANGED <<run, mk, inputs, data, draws, ref, cached>>
    /\ UNCHANGED <<gmmvars, readvars, cutvars>>
    /\ UNCHANGED othervars

\* the pipeline is started again with the same arguments
Rerun ==
    /\ phase = "selected" \/ (phase = "made" /\ out.status = "raise")
    /\ run < MaxRuns
    /\ ref' = out
    /\ run' = run + 1
    /\ phase' = "new"
    /\ mk' = NoMaker
    /\ data' = NoData
    /\ out' = NoOutput
    /\ draws' = {}
    /\ UNCHANGED <<inputs, cached>>
    /\ UNCHANGED <<gmmvars, readvars, cutvars>>
    /\ UNCHANGED othervars

----------------------------------------------------------------------------
(* apply_cuts: the north / south combination *)

TargetClasses == {"LRG", "ELG", "QSO"}

\* declinations, in millidegrees, on both sides of the split
Decs == {-5000, 32124, 32125, 32126, 40000}

\* populate_targets_truth: PHOTSYS is 'S' where is_south(DEC), 'N' elsewhere
PhotsysOf(dec) == IF is_south(dec) THEN "S" ELSE "N"

\* _isonnorthphotsys: photsys == 'N'
isonnorthphotsys(photsys) == photsys = "N"

\* _prepare_optical_wise: the southern system is whatever is not northern
isonsouthphotsys(photsys) == ~isonnorthphotsys(photsys)

\* lrg = (lrg_north & photsys_north) | (lrg_south & photsys_south)
Combine(north, south, photsys_north, photsys_south) ==
    (north /\ photsys_north) \/ (south /\ photsys_south)

ClassBits_CombinedOnly(c, north, south, combined) ==
    IF combined THEN {<<c, "ANY">>} ELSE {}

\* the bits apply_cuts puts in desi_target for one class
ClassBits(c, north, south, combined) ==
    (IF south THEN {<<c, "SOUTH">>} ELSE {}) \cup
    (IF north THEN {<<c, "NORTH">>} ELSE {}) \cup
    (IF combined THEN {<<c, "ANY">>} ELSE {})

apply_cuts_result(o) ==
    LET pn == isonnorthphotsys(o.photsys)
        ps == isonsouthphotsys(o.photsys)
        cmb == [c \in TargetClasses |-> Combine(o.north[c], o.south[c], pn, ps)]
    IN  [photsys_north |-> pn,
         photsys_south |-> ps,
         combined      |-> cmb,
         desi_target   |-> UNION {ClassBits(c, o.north[c], o.south[c], cmb[c]) : c \in TargetClasses}]

\* the column names of the table passed in: upper case, or lower case as an
\* astropy Table read elsewhere may have them
ColumnNames == { {"RA", "DEC", "PHOTSYS"}, {"ra", "dec", "photsys"} }

\* col.name.upper()
Upper(name) ==
    CASE name = "ra" -> "RA"
      [] name = "dec" -> "DEC"
      [] name = "photsys" -> "PHOTSYS"
      [] OTHER -> name

\* gaiainfo.dtype.names after pop_gaia_coords
GaiaColumns == {"PMRA", "PARALLAX"}

\* what apply_cuts does to the objects it was passed: with gaiamatch and MWS or
\* STD among tcnames, objects[col] = gaiainfo[col] for every Gaia column; for
\* an astropy Table (or Row), col.name = col.name.upper() for every column
\* whose name is not upper case
apply_cuts_objects(o) ==
    LET g == IF o.gaiamatch /\ o.gaiaclasses
             THEN [o EXCEPT !.columns = @ \cup GaiaColumns, !.gaia = "matched"]
             ELSE o
    IN  IF g.kind = "Table"
        THEN [g EXCEPT !.columns = { Upper(c) : c \in g.columns }]
        ELSE g

NoSelection ==
    [photsys_north |-> FALSE, photsys_south |-> FALSE,
     combined |-> [c \in TargetClasses |-> FALSE], desi_target |-> {}]

CutsStart ==
    /\ cpc = "start"
    /\ \E dec \in Decs, n \in [TargetClasses -> BOOLEAN], s \in [TargetClasses -> BOOLEAN],
          kind \in {"ndarray", "Table"}, cols \in ColumnNames, gm \in BOOLEAN, gc \in BOOLEAN :
        /\ kind = "ndarray" => cols = {"RA", "DEC", "PHOTSYS"}
        /\ obj = [dec |-> dec, photsys |-> PhotsysOf(dec), north |-> n, south |-> s,
                  kind |-> kind, columns |-> cols, gaia |-> "input",
                  gaiamatch |-> gm, gaiaclasses |-> gc]
    /\ sel = NoSelection

CutsIdle ==
    /\ cpc = "off"
    /\ obj = [dec |-> 0, photsys |-> "S",
              north |-> [c \in TargetClasses |-> FALSE],
              south |-> [c \in TargetClasses |-> FALSE],
              kind |-> "ndarray", columns |-> {}, gaia |-> "input",
              gaiamatch |-> FALSE, gaiaclasses |-> FALSE]
    /\ sel = NoSelection

apply_cuts ==
    /\ cpc = "start"
    /\ sel' = apply_cuts_result(obj)
    /\ obj' = apply_cuts_objects(obj)
    /\ cpc' = "cut"
    /\ UNCHANGED <<gmmvars, readvars, cached, makervars>>
    /\ UNCHANGED othervars

----------------------------------------------------------------------------
(* Properties of the Makers *)

\* the number of rows the last make_spectra call was asked for
Requested == IF inputs.q.all THEN Len(data.rows) ELSE Len(inputs.q.indx)

\* C1: with a seed given to the Maker, a second run of read, make_spectra and
\* select_targets on the same mock file and footprint returns the targets and
\* truth tables of the first run
C1_RunsIdentical ==
    (run > 1 /\ phase = "selected" /\ ~IsNone(inputs.seed)) =>
        (out.targets = ref.targets /\ out.truth = ref.truth)

\* C2: make_spectra on a non-empty record set returns targets and truth with
\* as many rows as indices were requested, and objtruth with none or as many
C2_RowCounts ==
    (phase = "made" /\ data.status = "data") =>
        /\ out.status = "ok"
        /\ Len(out.targets) = Requested
        /\ Len(out.truth) = Requested
        /\ out.nobjtruth \in {0, Requested}

\* C3: after the north / south write-back, output row i holds the template
\* result generated for object indx[i]; no row is left at its default
C3_WriteBackByIndex ==
    (phase = "made" /\ out.status = "ok") =>
        \A i \in 1..Len(out.truth) :
            out.truth[i].meta.obj = data.rows[ResolveIndx(data.rows, inputs.q)[i]].mockid

\* C5: with a seed given to the Maker, every stochastic draw of read and
\* make_spectra comes from a generator built from a seed
C5_AllDrawsSeeded ==
    ~IsNone(inputs.seed) => \A d \in draws : d.seeded

\* C9: make_spectra on the empty record set completes without raising and
\* returns zero rows in the usual five-part shape
C9_EmptyCompletes ==
    (phase = "made" /\ data = EmptyDict) =>
        /\ out.status = "ok"
        /\ out.arity = 5
        /\ Len(out.targets) = 0
        /\ Len(out.truth) = 0

\* C13: row i of targets and row i of truth both describe source row indx[i]:
\* truth MOCKID and the columns targets copies from the source carry the
\* source's values at indx[i], in the order of indx
C13_RowCorrespondence ==
    (phase = "made" /\ out.status = "ok") =>
        /\ Len(out.targets) = Len(out.truth)
        /\ \A i \in 1..Len(out.truth) :
              LET src == data.rows[ResolveIndx(data.rows, inputs.q)[i]]
              IN  /\ out.truth[i].mockid = src.mockid
                  /\ out.targets[i].dec = src.dec
                  /\ out.targets[i].gmm = src.gmm

\* tables made for an index array that reverses the source order
C13_Witness ==
    /\ phase = "made"
    /\ out.status = "ok"
    /\ inputs.q.indx = <<2, 1>>
    /\ Len(out.truth) = 2
    /\ out.truth[1].mockid = data.rows[2].mockid
    /\ out.truth[1].mockid # out.truth[2].mockid

\* C14: every row of every truth table has TRUESPECTYPE GALAXY, QSO, STAR or SKY
C14_SpecTypes ==
    out.status = "ok" =>
        \A i \in 1..Len(out.truth) :
            out.truth[i].truespectype \in {"GALAXY", "QSO", "STAR", "SKY"}

\* C16: select_targets changes the target bitmask of targets and CONTAM_TARGET
\* of truth only: both tables keep their rows, in order, and every other column
C16_OnlyBitmasksChange ==
    [][(phase = "made" /\ phase' = "selected") =>
          /\ Len(out'.targets) = Len(out.targets)
          /\ Len(out'.truth) = Len(out.truth)
          /\ out'.nobjtruth = out.nobjtruth
          /\ \A i \in 1..Len(out.targets) :
                [out'.targets[i] EXCEPT !.desi_target = 0] =
                    [out.targets[i] EXCEPT !.desi_target = 0]
          /\ \A i \in 1..Len(out.truth) :
                [out'.truth[i] EXCEPT !.contam_target = 0] =
                    [out.truth[i] EXCEPT !.contam_target = 0]]_vars

\* select_targets ran on two rows, set the bit of one and left the other clear
C16_Witness ==
    /\ phase = "selected"
    /\ Len(out.targets) = 2
    /\ \E i, j \in 1..2 : out.targets[i].desi_target = 1 /\ out.targets[j].desi_target = 0

\* a selected object whose MOCKID its skewer file does not hold
MissingFromSkewers ==
    \E i \in 1..Len(ResolveIndx(data.rows, inputs.q)) :
        LET src == data.rows[ResolveIndx(data.rows, inputs.q)[i]]
        IN  \A k \in 1..Len(SkewerMockids(src.lyafile)) :
                SkewerMockids(src.lyafile)[k] # src.mockid

\* C17: when LYAMaker.make_spectra reads the skewers and a selected object's
\* MOCKID is absent from its skewer file, the call raises and returns no tables
C17_MissingIdRaises ==
    (phase = "made" /\ mk.cls = "LYAMaker" /\ data.status = "data"
        /\ ~inputs.q.no_spectra /\ MissingFromSkewers) =>
        (out.status = "raise" /\ out.targets = <<>> /\ out.truth = <<>>)

\* two objects were selected, the second one missing from the skewer file
C17_Witness ==
    /\ phase = "made"
    /\ mk.cls = "LYAMaker"
    /\ ~inputs.q.no_spectra
    /\ Len(ResolveIndx(data.rows, inputs.q)) = 2
    /\ MissingFromSkewers
    /\ out = Raised

\* C23: when LYAMaker.make_spectra reads the skewers of objects that come from
\* two or more files whose wavelength grids agree, the check of the wavelengths
\* passes and the call goes on to return its tables
C23_SameGridPasses ==
    LET ix    == ResolveIndx(data.rows, inputs.q)
        files == uniquelyafiles(data.rows, ix)
    IN  (phase = "made" /\ mk.cls = "LYAMaker" /\ data.status = "data"
            /\ ~inputs.q.no_spectra /\ ~MissingFromSkewers
            /\ Cardinality(files) >= 2
            /\ \A f, g \in files : SkewerWave(f) = SkewerWave(g)) =>
            out.status = "ok"

----------------------------------------------------------------------------
(* Properties of apply_cuts *)

\* C7: each object is in exactly one photometric system, the southern one
\* exactly when dec <= 32.125, and for every class the combined selection is
\* the north cut's result for a northern object and the south cut's for a
\* southern object
C7_NorthSouthPartition ==
    cpc = "cut" =>
        /\ sel.photsys_north # sel.photsys_south
        /\ sel.photsys_south <=> (obj.dec <= DecSouthMax)
        /\ \A c \in TargetClasses :
              sel.combined[c] = IF sel.photsys_north THEN obj.north[c] ELSE obj.south[c]

\* an object on the split itself that only the north cut accepts
C7_Witness ==
    /\ cpc = "cut"
    /\ obj.dec = DecSouthMax
    /\ obj.north["LRG"] /\ ~obj.south["LRG"]
    /\ ~sel.combined["LRG"]

\* select_targets, _finalize_targets: keep = (desi_target != 0)
finalize_keep(desi_target) == desi_target # {}

\* the object passed the cut of some class in the variant of its own system
PassedOwnSystem ==
    \E c \in TargetClasses :
        \/ (obj.north[c] /\ sel.photsys_north)
        \/ (obj.south[c] /\ sel.photsys_south)

C15_ObjectsUnchanged ==
    [][(cpc = "start" /\ cpc' = "cut") => obj' = obj]_vars

----------------------------------------------------------------------------
(* read_GMM: the class attributes GMM_<target> and the model files *)

GMMTargets == {"LRG", "ELG", "BGS", "QSO"}

\* the classes that look a GMM up: the Makers in __init__, the readers in sample_GMM
GMMMakers == {"QSOMaker", "LRGMaker", "ELGMaker", "BGSMaker"}
GMMReaders == {"ReadGaussianField", "ReadMXXL"}

\* how many constructions and sample_GMM calls one process makes
MaxGMMOps == 3

\* the GMM_<target> names a class body binds to None itself: QSOMaker has
\* GMM_QSO, while LRGMaker, ELGMaker and BGSMaker all have GMM_LRG
DeclaredGMM(cls) ==
    IF cls = "QSOMaker" THEN {"QSO"}
    ELSE IF cls \in {"LRGMaker", "ELGMaker", "BGSMaker"} THEN {"LRG"}
    ELSE {}

\* the target __init__ tests and reads: "if self.GMM_LRG is None:
\* self.read_GMM(target='LRG')" in LRGMaker and in ELGMaker
InitTarget(cls) ==
    CASE cls = "QSOMaker" -> "QSO"
      [] cls \in {"LRGMaker", "ELGMaker"} -> "LRG"
      [] OTHER -> "BGS"

\* getattr(self, 'GMM_<t>') is not None: the name bound in the class body of
\* cls is found before SelectTargets' and is never assigned
HasGMM(cls, attr, t) == IF t \in DeclaredGMM(cls) THEN FALSE ELSE attr[t]

\* read_GMM(target=t) on an instance of cls: return if the attribute is set,
\* otherwise read the files and setattr(SelectTargets, 'GMM_<t>', ...)
read_GMM(cls, st, t) ==
    IF HasGMM(cls, st.attr, t) THEN st
    ELSE [attr |-> [st.attr EXCEPT ![t] = TRUE], reads |-> [st.reads EXCEPT ![t] = @ + 1]]

\* "if GMM is None: self.read_GMM(target=target)" of __init__ and of sample_GMM
LookupOrRead(cls, st, t) == IF HasGMM(cls, st.attr, t) THEN st ELSE read_GMM(cls, st, t)

NoGMMOp == [n |-> 0, kind |-> "none", cls |-> "none", target |-> "none"]

LoadStart ==
    /\ GMM_attr = [t \in GMMTargets |-> FALSE]
    /\ gmmreads = [t \in GMMTargets |-> 0]
    /\ gmmop = NoGMMOp

LoadIdle ==
    /\ GMM_attr = [t \in GMMTargets |-> FALSE]
    /\ gmmreads = [t \in GMMTargets |-> 0]
    /\ gmmop = [NoGMMOp EXCEPT !.kind = "off"]

\* Maker(): the GMM part of __init__
ConstructMaker ==
    /\ gmmop.kind # "off"
    /\ gmmop.n < MaxGMMOps
    /\ \E cls \in GMMMakers :
        LET st == LookupOrRead(cls, [attr |-> GMM_attr, reads |-> gmmreads], InitTarget(cls))
        IN  /\ GMM_attr' = st.attr
            /\ gmmreads' = st.reads
            /\ gmmop' = [n |-> gmmop.n + 1, kind |-> "construct", cls |-> cls,
                         target |-> InitTarget(cls)]
    /\ UNCHANGED <<pipelinevars, samplevars, selectvars, vdispvars, checkvars, qsovars, sessionvars, lrgvars>>

\* reader.sample_GMM(nobj, target=t): the lookup at its start
SampleLookup ==
    /\ gmmop.kind # "off"
    /\ gmmop.n < MaxGMMOps
    /\ \E cls \in GMMReaders, t \in GMMTargets :
        LET st == LookupOrRead(cls, [attr |-> GMM_attr, reads |-> gmmreads], t)
        IN  /\ GMM_attr' = st.attr
            /\ gmmreads' = st.reads
            /\ gmmop' = [n |-> gmmop.n + 1, kind |-> "sample", cls |-> cls, target |-> t]
    /\ UNCHANGED <<pipelinevars, samplevars, selectvars, vdispvars, checkvars, qsovars, sessionvars, lrgvars>>

\* C11: within one process the model files of a target class are read at most
\* once, however many Makers are constructed and however often sample_GMM runs
C11_LoadedAtMostOnce ==
    \A t \in GMMTargets : gmmreads[t] <= 1

----------------------------------------------------------------------------
(* sample_GMM: the rows it fills and the prior-magnitude reordering *)

\* the largest number of objects handed to the sampler here
MaxSample == 3

\* GMM[0] and the summed fractions of GMM[1], in the order read_GMM stores
\* them: ('PSF', 'REX', 'EXP', 'DEV', 'COMP') restricted to the files found
GMMModels ==
    { [morph |-> <<"EXP", "DEV", "COMP">>, norm |-> <<1, 1, 1>>],
      [morph |-> <<"EXP", "DEV", "COMP">>, norm |-> <<0, 1, 1>>],
      [morph |-> <<"REX", "EXP", "DEV">>,  norm |-> <<3, 1, 0>>],
      [morph |-> <<"REX", "DEV">>,         norm |-> <<1, 3>>] }

\* magnitudes in hundredths of a magnitude: what a GMM draw may carry, what a
\* prior magnitude may be
SampleMags == {1800, 1860}
PriorMags == {1750, 1805, 1830}

\* dmcut = 0.3
dmcut == 30

\* a row of gmmout as np.zeros leaves it
ZeroRow == [type |-> "", mag |-> 0, fracdev |-> 0]

\* a[g] for a possibly negative position g (0-based) of an array of n rows
PyIndex(g, n) == IF g < 0 THEN g + n + 1 ELSE g + 1

\* one pass of "for ii, mm in enumerate(morph)": if nobj_morph[ii] > 0 the rows
\* gthese get TYPE and MAG of the chosen draws, and FRACDEV[:] is set for DEV
\* and EXP
RECURSIVE FillMorph(_, _, _, _, _)
FillMorph(tbl, ii, morph, cnt, mags) ==
    IF ii > Len(morph) THEN tbl
    ELSE IF cnt[ii] <= 0 THEN FillMorph(tbl, ii + 1, morph, cnt, mags)
    ELSE LET off    == SumSeq(SubSeq(cnt, 1, ii - 1))
             gthese == { PyIndex(off + k, Len(tbl)) : k \in 0..(cnt[ii] - 1) }
             t1     == [g \in 1..Len(tbl) |->
                          IF g \in gthese
                          THEN [tbl[g] EXCEPT !.type = morph[ii], !.mag = mags[g]]
                          ELSE tbl[g]]
             t2     == IF morph[ii] = "DEV"
                       THEN [g \in 1..Len(tbl) |-> [t1[g] EXCEPT !.fracdev = 1]]
                       ELSE IF morph[ii] = "EXP"
                       THEN [g \in 1..Len(tbl) |-> [t1[g] EXCEPT !.fracdev = 0]]
                       ELSE t1
         IN  FillMorph(t2, ii + 1, morph, cnt, mags)

\* gmmout['FRACDEV'][gmmout['FRACDEV'] < 0.0] = 0.0, and > 1.0 = 1.0
ClipFracdev(tbl) ==
    [g \in 1..Len(tbl) |->
        [tbl[g] EXCEPT !.fracdev = IF @ < 0 THEN 0 ELSE IF @ > 1 THEN 1 ELSE @]]

\* gmmout before any reordering
SampledRows(n, gmm, mags) ==
    ClipFracdev(FillMorph([g \in 1..n |-> ZeroRow], 1, gmm.morph,
                          MorphCounts(gmm.norm, n), mags))

AbsDiff(a, b) == IF a >= b THEN a - b ELSE b - a

\* dm = np.where( (np.abs(mg-gmmout['MAG']) < dmcut) )[0]
WithinCut(mg, tbl) == { j \in 1..Len(tbl) : AbsDiff(mg, tbl[j].mag) < dmcut }

NearestRow_First(mg, tbl) == 1

\* np.argmin(np.abs(mg-gmmout['MAG'])): the first position of the smallest distance
NearestRow(mg, tbl) ==
    CHOOSE j \in 1..Len(tbl) :
        /\ \A k \in 1..Len(tbl) : AbsDiff(mg, tbl[j].mag) <= AbsDiff(mg, tbl[k].mag)
        /\ \A k \in 1..(j - 1) : AbsDiff(mg, tbl[k].mag) > AbsDiff(mg, tbl[j].mag)

\* the values srt may take: rand.choice(dm) where dm is not empty, argmin elsewhere
SrtChoices(prior_mag, tbl) ==
    { s \in [1..Len(prior_mag) -> 1..Len(tbl)] :
        \A i \in 1..Len(prior_mag) :
            IF WithinCut(prior_mag[i], tbl) = {}
            THEN s[i] = NearestRow(prior_mag[i], tbl)
            ELSE s[i] \in WithinCut(prior_mag[i], tbl) }

\* gmmout[key][:] = gmmout[key][srt] for every key
Reorder(tbl, s) == [i \in 1..Len(tbl) |-> tbl[s[i]]]

\* prior_mag=None is the empty record; otherwise one magnitude per object
NoPrior == [none |-> TRUE]

SampleArgs ==
    { [nobj |-> n, gmm |-> g, prior |-> NoPrior] : n \in 0..MaxSample, g \in GMMModels } \cup
    { [nobj |-> n, gmm |-> g, prior |-> [none |-> FALSE, mag |-> p]] :
        n \in 0..MaxSample, g \in GMMModels, p \in UNION {[1..m -> PriorMags] : m \in 0..MaxSample} }

NoSample == [status |-> "none", pre |-> <<>>, srt |-> <<>>, out |-> <<>>]

SampleStart ==
    /\ sarg \in { a \in SampleArgs : a.prior.none \/ Len(a.prior.mag) = a.nobj }
    /\ sres = NoSample

SampleIdle ==
    /\ sarg = [nobj |-> 0, gmm |-> [morph |-> <<>>, norm |-> <<>>], prior |-> NoPrior]
    /\ sres = [NoSample EXCEPT !.status = "off"]

\* sample_GMM(nobj, target, seed, prior_mag)
sample ==
    /\ sres.status = "none"
    /\ \E mags \in [1..sarg.nobj -> SampleMags] :
        LET pre == SampledRows(sarg.nobj, sarg.gmm, mags)
        IN  IF sarg.prior.none
            THEN sres' = [status |-> "done", pre |-> pre, srt |-> <<>>, out |-> pre]
            ELSE \E s \in SrtChoices(sarg.prior.mag, pre) :
                    sres' = [status |-> "done", pre |-> pre, srt |-> s, out |-> Reorder(pre, s)]
    /\ UNCHANGED sarg
    /\ UNCHANGED <<pipelinevars, loadvars, selectvars, vdispvars, checkvars, qsovars, sessionvars, lrgvars>>

\* C12: before any reordering every row of type DEV has FRACDEV 1, every row
\* of type EXP has FRACDEV 0, and every FRACDEV lies in [0, 1]
C12_FracdevByType ==
    sres.status = "done" =>
        \A g \in 1..Len(sres.pre) :
            /\ sres.pre[g].type = "DEV" => sres.pre[g].fracdev = 1
            /\ sres.pre[g].type = "EXP" => sres.pre[g].fracdev = 0
            /\ sres.pre[g].fracdev \in 0..1

----------------------------------------------------------------------------
(* sv_cuts.select_targets: the input files processed one by one or by a pool *)

\* the largest number of input files
MaxFiles == 3

\* io.read_tractor(filename) followed by apply_cuts: the objects of each sweep
\* file with the desi_target bits the cuts give them
SweepObjects(filename) ==
    CASE filename = "sweep1" -> << [id |-> 1, desi_target |-> 1], [id |-> 2, desi_target |-> 0] >>
      [] filename = "sweep2" -> << [id |-> 3, desi_target |-> 2] >>
      [] OTHER -> << [id |-> 4, desi_target |-> 0], [id |-> 1, desi_target |-> 1],
                     [id |-> 5, desi_target |-> 4] >>

SweepFiles == {"sweep1", "sweep2", "sweep3"}

\* _select_targets_file with _finalize_targets: keep = (desi_target != 0)
select_targets_file(filename) ==
    SelectSeq(SweepObjects(filename), LAMBDA o : o.desi_target # 0)

concatenate_Last(arrays) == IF arrays = <<>> THEN <<>> ELSE arrays[Len(arrays)]

\* targets = np.concatenate(targets)
RECURSIVE concatenate(_)
concatenate(arrays) ==
    IF arrays = <<>> THEN <<>> ELSE Head(arrays) \o concatenate(Tail(arrays))

\* "for x in infiles": the serial code takes the files in the order given
SerialNext(pending) == { i \in pending : \A j \in pending : i <= j }

\* pool.map(_select_targets_file, infiles, reduce=_update_status): the pool
\* hands a result to the reduction when its worker finishes, in any order
PoolNext(pending) == pending

NoPool == [done |-> {}, results |-> <<>>, order |-> <<>>, nbrick |-> 0]

SelectStart ==
    /\ svjob \in { [infiles |-> f, numproc |-> n] :
                     f \in UNION {[1..m -> SweepFiles] : m \in 1..MaxFiles}, n \in {1, 4} }
    /\ svpool = NoPool
    /\ svout = [status |-> "running", targets |-> <<>>]

SelectIdle ==
    /\ svjob = [infiles |-> <<>>, numproc |-> 0]
    /\ svpool = NoPool
    /\ svout = [status |-> "off", targets |-> <<>>]

\* one input file is finished: its targets are appended to the list and
\* _update_status counts it
map_file ==
    /\ svout.status = "running"
    /\ \E i \in (IF svjob.numproc > 1
                 THEN PoolNext((1..Len(svjob.infiles)) \ svpool.done)
                 ELSE SerialNext((1..Len(svjob.infiles)) \ svpool.done)) :
        svpool' = [done    |-> svpool.done \cup {i},
                   results |-> Append(svpool.results, select_targets_file(svjob.infiles[i])),
                   order   |-> Append(svpool.order, i),
                   nbrick  |-> svpool.nbrick + 1]
    /\ UNCHANGED <<svjob, svout>>
    /\ UNCHANGED <<pipelinevars, loadvars, samplevars, vdispvars, checkvars, qsovars, sessionvars, lrgvars>>

\* every file is finished: targets = np.concatenate(targets); return targets
sv_select_targets ==
    /\ svout.status = "running"
    /\ svpool.done = 1..Len(svjob.infiles)
    /\ svout' = [status |-> "returned", targets |-> concatenate(svpool.results)]
    /\ UNCHANGED <<svjob, svpool>>
    /\ UNCHANGED <<pipelinevars, loadvars, samplevars, vdispvars, checkvars, qsovars, sessionvars, lrgvars>>

\* what the serial code (numproc=1) returns for the same input files
RECURSIVE SerialTargets(_)
SerialTargets(files) ==
    IF files = <<>> THEN <<>>
    ELSE select_targets_file(Head(files)) \o SerialTargets(Tail(files))

\* how many times row x occurs in a table
Occurrences(tbl, x) == Cardinality({ k \in 1..Len(tbl) : tbl[k] = x })

\* C18: whatever the order in which the files finish, the targets returned are
\* exactly the rows the serial run returns for the same files, each as often
C18_OrderIrrelevant ==
    svout.status = "returned" =>
        /\ Len(svout.targets) = Len(SerialTargets(svjob.infiles))
        /\ \A k \in 1..Len(svout.targets) :
              Occurrences(svout.targets, svout.targets[k]) =
                  Occurrences(SerialTargets(svjob.infiles), svout.targets[k])

\* three files finished out of order, two of them holding an equal row
C18_Witness ==
    /\ svout.status = "returned"
    /\ svjob.numproc > 1
    /\ svjob.infiles = <<"sweep1", "sweep2", "sweep3">>
    /\ svpool.order = <<3, 1, 2>>
    /\ svout.targets # SerialTargets(svjob.infiles)

----------------------------------------------------------------------------
(* _sample_vdisp: one velocity dispersion population per healpixel *)

\* the largest number of objects handed to _sample_vdisp
MaxVdisp == 3

\* fracvdisp = (fraction, cap): the fraction in tenths; (0.1, 1) is the default
FracVdisp == { [frac |-> f, cap |-> c] : f \in {1, 5}, c \in {1, 2} }

\* the values 10**rand.normal(loc=mean, scale=sigma) may take, in km/s
VdispValues == {80, 95}

\* nvdisp = int(np.max( ( np.min( ( np.round(nmodel * fracvdisp[0]), fracvdisp[1] ) ), 1 ) ))
nvdisp(nmodel, fracvdisp) ==
    LET r == RoundHalfEven(nmodel * fracvdisp.frac, 10)
        m == IF r < fracvdisp.cap THEN r ELSE fracvdisp.cap
    IN  IF m > 1 THEN m ELSE 1

\* _sample(nmodel): vvdisp holds nvdisp draws and rand.choice(vvdisp, nmodel)
\* picks one of them for each object; the arrays it may return
SampleChoices(nmodel, fracvdisp) ==
    { c \in [1..nmodel -> VdispValues] :
        \E vvdisp \in [1..nvdisp(nmodel, fracvdisp) -> VdispValues] :
            \A k \in 1..nmodel : \E d \in 1..Len(vvdisp) : c[k] = vvdisp[d] }

\* these = np.in1d(healpix, pix), as the increasing positions
These(healpix, pix) == SelectSeq([i \in 1..Len(healpix) |-> i], LAMBDA i : healpix[i] = pix)

\* for pix in set(healpix): vdisp[these] = _sample(nmodel=np.count_nonzero(these))
VdispChoices(healpix, fracvdisp) ==
    { v \in [1..Len(healpix) -> VdispValues] :
        \A pix \in { healpix[i] : i \in 1..Len(healpix) } :
            \E c \in SampleChoices(Len(These(healpix, pix)), fracvdisp) :
                \A k \in 1..Len(These(healpix, pix)) : v[These(healpix, pix)[k]] = c[k] }

VdispStart ==
    /\ varg \in { [healpix |-> h, fracvdisp |-> f] :
                    h \in UNION {[1..n -> 0..1] : n \in 0..MaxVdisp}, f \in FracVdisp }
    /\ vres = [status |-> "none", vdisp |-> <<>>]

VdispIdle ==
    /\ varg = [healpix |-> <<>>, fracvdisp |-> [frac |-> 1, cap |-> 1]]
    /\ vres = [status |-> "off", vdisp |-> <<>>]

\* _sample_vdisp(ra, dec, mean, sigma, fracvdisp, seed, nside)
sample_vdisp ==
    /\ vres.status = "none"
    /\ \E v \in VdispChoices(varg.healpix, varg.fracvdisp) :
        vres' = [status |-> "done", vdisp |-> v]
    /\ UNCHANGED varg
    /\ UNCHANGED <<pipelinevars, loadvars, samplevars, selectvars, checkvars, qsovars, sessionvars, lrgvars>>

\* C19: objects in the same healpixel receive the same velocity dispersion,
\* whatever fracvdisp is
C19_SameCellSameVdisp ==
    vres.status = "done" =>
        \A i, j \in 1..Len(varg.healpix) :
            varg.healpix[i] = varg.healpix[j] => vres.vdisp[i] = vres.vdisp[j]

----------------------------------------------------------------------------
(* readmock: the checks on the arguments, before anything is read *)

\* the environment of the process: the variables that are set
Environ == {"DESI_ROOT"}

\* mockfile as the caller may give it: None, or a path with or without a
\* "{VARIABLE}" placeholder
MockPaths == {"None", "{DESI_ROOT}/mock.fits", "{DESI_ROOT}/gone.fits",
              "{DESI_MOCKS}/mock.fits", "/data/mock.fits", "/data/gone.fits"}

\* the environment variable a path names, "none" when it names none
Placeholder(path) ==
    IF path \in {"{DESI_ROOT}/mock.fits", "{DESI_ROOT}/gone.fits"} THEN "DESI_ROOT"
    ELSE IF path = "{DESI_MOCKS}/mock.fits" THEN "DESI_MOCKS"
    ELSE "none"

\* mockfile.format(**os.environ): KeyError when the variable is not set
format(path) ==
    IF Placeholder(path) = "none" THEN path
    ELSE IF Placeholder(path) \notin Environ THEN "KeyError"
    ELSE IF path = "{DESI_ROOT}/mock.fits" THEN "/desi/mock.fits"
    ELSE "/desi/gone.fits"

\* os.path.isfile(mockfile) / os.path.isdir(os.path.join(mockfile, str(nside_galaxia)))
isfile(path) == path \in {"/desi/mock.fits", "/data/mock.fits"}

\* healpixels and nside as the caller may give them: None, one number, an
\* array of two numbers, an empty list
ArgShapes == {"None", "scalar", "vector", "empty"}

\* len(np.atleast_1d(x)); np.atleast_1d(None) is an array of one object
Len1d(x) == IF x = "vector" THEN 2 ELSE IF x = "empty" THEN 0 ELSE 1

\* the readers that read the whole footprint when healpixels is None
DefaultingReaders == {"ReadGaussianField", "ReadUniformSky", "ReadLyaCoLoRe",
                      "ReadMXXL", "ReadMWS_WD", "ReadMWS_NEARBY"}

EffectiveNside_Always(healpixels, nside) == IF nside = "None" THEN "16" ELSE nside

\* if healpixels is None: if nside is None: nside = 16
EffectiveNside(healpixels, nside) ==
    IF healpixels = "None" /\ nside = "None" THEN "16" ELSE nside

ChecksResult(status, at, reads, nside) ==
    [status |-> status, at |-> at, reads |-> reads, nside |-> nside]

\* if len(np.atleast_1d(healpixels)) != 1 and len(np.atleast_1d(nside)) != 1
GalaxiaScalarCheck(healpixels, nside) ==
    Len1d(healpixels) # 1 /\ Len1d(nside) # 1

\* ReadGalaxia.readmock up to findfile: reads counts the files read so far
\* (the pixel weight map is loaded before target_name is looked at)
GalaxiaChecks(a) ==
    IF a.mockfile = "None" THEN ChecksResult("ValueError", "mockfile", 0, a.nside)
    ELSE IF format(a.mockfile) = "KeyError"
    THEN ChecksResult("ValueError", "environment", 0, a.nside)
    ELSE IF a.nside_own = "None" THEN ChecksResult("ValueError", "nside_galaxia", 0, a.nside)
    ELSE IF ~isfile(format(a.mockfile)) THEN ChecksResult("IOError", "isdir", 0, a.nside)
    ELSE IF GalaxiaScalarCheck(a.healpixels, a.nside)
    THEN ChecksResult("ValueError", "scalar", 0, a.nside)
    ELSE IF a.target_name \notin {"MWS_MAIN", "FAINTSTAR"}
    THEN ChecksResult("ValueError", "target_name", 1, a.nside)
    ELSE ChecksResult("proceeds", "findfile", 1, a.nside)

\* readmock of the other readers up to _get_radec / load_pixweight
ReadmockChecks(r, a) ==
    IF r = "ReadGalaxia" THEN GalaxiaChecks(a)
    ELSE IF a.mockfile = "None" THEN ChecksResult("ValueError", "mockfile", 0, a.nside)
    ELSE IF format(a.mockfile) = "KeyError"
    THEN ChecksResult("ValueError", "environment", 0, a.nside)
    ELSE IF r = "ReadLyaCoLoRe" /\ a.nside_own = "None"
    THEN ChecksResult("ValueError", "nside_lya", 0, a.nside)
    ELSE IF ~isfile(format(a.mockfile)) THEN ChecksResult("IOError", "isfile", 0, a.nside)
    ELSE IF r = "ReadGAMA" /\ a.healpixels = "None"
    THEN ChecksResult("ValueError", "healpixels", 0, a.nside)
    ELSE IF r = "ReadGAMA" /\ a.nside = "None"
    THEN ChecksResult("ValueError", "nside", 0, a.nside)
    ELSE IF r # "ReadGAMA" /\ EffectiveNside(a.healpixels, a.nside) = "None"
    THEN ChecksResult("ValueError", "nside", 0, a.nside)
    ELSE ChecksResult("proceeds", "read",  1,
                      IF r = "ReadGAMA" THEN a.nside
                      ELSE EffectiveNside(a.healpixels, a.nside))

\* nside_galaxia / nside_lya and target_name, for the readers that take them
OwnArgs(r) ==
    IF r = "ReadGalaxia"
    THEN {[nside_own |-> n, target_name |-> t] : n \in {"None", "8"}, t \in {"MWS_MAIN", "OTHER"}}
    ELSE IF r = "ReadLyaCoLoRe"
    THEN {[nside_own |-> n, target_name |-> "LYA"] : n \in {"None", "16"}}
    ELSE {[nside_own |-> "None", target_name |-> "any"]}

NoChecks == [status |-> "none", at |-> "none", reads |-> 0, nside |-> "None"]

ChecksStart ==
    /\ acall = [reader |-> "none"]
    /\ aout = NoChecks

ChecksIdle ==
    /\ acall = [reader |-> "off"]
    /\ aout = NoChecks

\* one readmock call with arguments of any shape, on any reader
readmock_checks ==
    /\ \E r \in Readers, m \in MockPaths, hp \in ArgShapes, n \in ArgShapes :
        \E o \in OwnArgs(r) :
            LET a == [reader |-> r, mockfile |-> m, healpixels |-> hp, nside |-> n,
                      nside_own |-> o.nside_own, target_name |-> o.target_name]
            IN  /\ acall' = a
                /\ aout' = ReadmockChecks(r, a)
    /\ UNCHANGED <<pipelinevars, loadvars, samplevars, selectvars, vdispvars, qsovars, sessionvars, lrgvars>>

\* a required parameter is missing or the placeholder in the path is unresolved
BadConfiguration(a) ==
    \/ a.mockfile = "None"
    \/ format(a.mockfile) = "KeyError"
    \/ a.nside = "None"

C24_NonScalarRaises ==
    (acall.reader = "ReadGalaxia"
        /\ (acall.healpixels \in {"vector", "empty"} \/ acall.nside \in {"vector", "empty"})) =>
        (aout.status = "ValueError" /\ aout.reads = 0)

----------------------------------------------------------------------------
(* isQSO_cuts: the dispatcher and its north / south variants *)

\* the photometry of one object, as magnitudes and colours in hundredths of a
\* magnitude (flux ratios in the code): r, grz, g-r, r-z, W1-W2, grz-W
QSOPhotometry ==
    { [r |-> 2200, grz |-> 2150, g_r |-> 10,  r_z |-> 20, w1_w2 |-> 10, grz_w |-> 100],
      [r |-> 2100, grz |-> 2050, g_r |-> 60,  r_z |-> 30, w1_w2 |-> 10, grz_w |-> 100],
      [r |-> 2300, grz |-> 2250, g_r |-> 10,  r_z |-> 20, w1_w2 |-> 10, grz_w |-> 100],
      [r |-> 2200, grz |-> 2150, g_r |-> 10,  r_z |-> 20, w1_w2 |-> 10, grz_w |-> -80] }

\* isQSO_colors_north / isQSO_colors_south with optical=False: the two bodies
\* are the same
isQSO_colors(p) ==
    LET qso == /\ p.r < 2270
               /\ p.grz > 1700
               /\ p.g_r < 130
               /\ p.r_z > -30
               /\ p.r_z < 110
               /\ p.w1_w2 > -40
               /\ p.grz_w > p.g_r + p.r_z - 100
        mainseq == /\ p.g_r > 20
                   /\ 2 * p.g_r - 3 * p.r_z > 2 * (-10) + 35
                   /\ 2 * p.g_r - 3 * p.r_z < 2 * 10 + 35
                   /\ p.w1_w2 < 30
    IN  qso /\ ~mainseq

\* _psflike(objtype)
psflike(objtype) == objtype = "PSF"

\* the release used when none is passed: 6000 in the north, 5000 in the south
DefaultRelease(south) == IF south THEN 5000 ELSE 6000

\* the body shared by isQSO_cuts_north and isQSO_cuts_south
isQSO_cuts_body(a, south) ==
    LET release == IF IsNone(a.release) THEN DefaultRelease(south) ELSE a.release
    IN  /\ isQSO_colors(a.phot)
        /\ a.w1snr > 4
        /\ a.w2snr > 2
        /\ (a.deltaChi2 > 40 \/ release >= 5000)
        /\ (a.primary # "None" => a.primary = "True")
        /\ (a.objtype # "None" => psflike(a.objtype))

isQSO_cuts_north(a) == isQSO_cuts_body(a, FALSE)

isQSO_cuts_south(a) == isQSO_cuts_body(a, TRUE)

\* isQSO_cuts: with south == False the call names "objects", which is neither
\* a parameter nor a global of the module, so evaluating the arguments raises
\* NameError before isQSO_cuts_north is entered
isQSO_cuts_result(a) ==
    IF a.south = FALSE
    THEN [status |-> "NameError", mask |-> FALSE]
    ELSE [status |-> "returned", mask |-> isQSO_cuts_south(a)]

QSOArgs ==
    { [phot |-> p, w1snr |-> s1, w2snr |-> s2, deltaChi2 |-> d, release |-> rl,
       primary |-> pr, objtype |-> t, south |-> s] :
        p \in QSOPhotometry, s1 \in {3, 5}, s2 \in {1, 3}, d \in {30, 50},
        rl \in {-1, 4000, 6000}, pr \in {"None", "True", "False"},
        t \in {"None", "PSF", "EXP"}, s \in BOOLEAN }

QSOStart ==
    /\ qarg \in QSOArgs
    /\ qres = [status |-> "none", mask |-> FALSE]

QSOIdle ==
    /\ qarg = [south |-> TRUE]
    /\ qres = [status |-> "off", mask |-> FALSE]

\* one call of the dispatcher
isQSO_cuts ==
    /\ qres.status = "none"
    /\ qres' = isQSO_cuts_result(qarg)
    /\ UNCHANGED qarg
    /\ UNCHANGED <<pipelinevars, loadvars, samplevars, selectvars, vdispvars, checkvars, sessionvars, lrgvars>>

\* C22: isQSO_cuts with south=False returns what isQSO_cuts_north returns for
\* the same arguments, and otherwise what isQSO_cuts_south returns
C22_DispatcherEquivalent ==
    qres.status \notin {"none", "off"} =>
        qres = [status |-> "returned",
                mask |-> IF qarg.south = FALSE THEN isQSO_cuts_north(qarg)
                         ELSE isQSO_cuts_south(qarg)]

----------------------------------------------------------------------------
(* Makers over a session: class attributes, instances, read after read *)

\* how many calls (constructions, reads, make_spectra) a session makes
MaxCalls == 4

SessionMakers == {"QSOMaker", "BGSMaker", "WDMaker"}

\* mockformat as a caller may give it
MockFormats == {"gaussianfield", "durham_mxxl_hdf5", "bgs-gama", "mws_wd", "MWS_WD", "galaxia"}

\* mockformat.lower()
lower(mockformat) == IF mockformat = "MWS_WD" THEN "mws_wd" ELSE mockformat

\* the branches of each Maker's read: the reader of a recognised format
FormatReader(cls, fmt) ==
    CASE cls = "QSOMaker" /\ fmt = "gaussianfield" -> "ReadGaussianField"
      [] cls = "BGSMaker" /\ fmt = "durham_mxxl_hdf5" -> "ReadMXXL"
      [] cls = "BGSMaker" /\ fmt = "gaussianfield" -> "ReadGaussianField"
      [] cls = "BGSMaker" /\ fmt = "bgs-gama" -> "ReadGAMA"
      [] cls = "WDMaker" /\ fmt = "mws_wd" -> "ReadMWS_WD"
      [] OTHER -> "none"

\* the self.default_mockfile a branch sets; the bgs-gama branch sets none
FormatDefault(cls, fmt) ==
    CASE cls = "QSOMaker" /\ fmt = "gaussianfield" -> "GaussianRandomField/QSO.fits"
      [] cls = "BGSMaker" /\ fmt = "durham_mxxl_hdf5" -> "MXXL/BGS.hdf5"
      [] cls = "BGSMaker" /\ fmt = "gaussianfield" -> "GaussianRandomField/BGS.fits"
      [] cls = "WDMaker" /\ fmt = "mws_wd" -> "wd/mock_wd.fits"
      [] OTHER -> "unset"

\* what a call of the session returned or raised; the fields a call does not
\* set stay at "none"
NoCall == [op |-> "none", status |-> "none", reader |-> "none", opened |-> "none",
           service |-> "none", style |-> "none", mag |-> "none",
           format |-> "none", mockfile |-> "none", no_spectra |-> FALSE]

ReadResult(status, reader, opened, mockformat, mockfile) ==
    [NoCall EXCEPT !.op = "read", !.status = status, !.reader = reader, !.opened = opened,
                   !.format = mockformat, !.mockfile = mockfile]

\* Maker.read(mockfile, mockformat): self.mockformat is assigned first, then the
\* format is looked up; the instance it leaves and what it opened or raised
read_result(self, mockformat, mockfile) ==
    LET fmt  == lower(mockformat)
        s1   == [self EXCEPT !.mockformat = fmt]
        s2   == IF FormatDefault(self.cls, fmt) # "unset"
                THEN [s1 EXCEPT !.default_mockfile = FormatDefault(self.cls, fmt)]
                ELSE s1
        file == IF mockfile = "None" THEN s2.default_mockfile ELSE mockfile
    IN  IF FormatReader(self.cls, fmt) = "none"
        THEN [self |-> s1,
              ret  |-> ReadResult("ValueError", "none", "none", mockformat, mockfile)]
        ELSE IF file = "unset"
        THEN [self |-> s2,
              ret  |-> ReadResult("AttributeError", "none", "none", mockformat, mockfile)]
        ELSE [self |-> s2,
              ret  |-> ReadResult("ok", FormatReader(self.cls, fmt), file, mockformat, mockfile)]

SpectraResult(status, service, style, mag) ==
    [NoCall EXCEPT !.op = "make_spectra", !.status = status, !.service = service,
                   !.style = style, !.mag = mag]

\* self.template_maker: the class attribute QSOMaker.template_maker
template_maker(klass, self) == klass.template_maker

\* make_spectra of the three Makers, as far as it depends on self.mockformat,
\* self.use_simqso and the template maker: which service makes the templates,
\* how it is called and where the magnitudes or template numbers come from
spectra_result(klass, self, no_spectra) ==
    IF self.cls = "QSOMaker" THEN
        IF no_spectra THEN SpectraResult("ok", "GMM_nospectra", "none", "none")
        ELSE IF self.use_simqso
        THEN SpectraResult("ok", template_maker(klass, self), "nmodel", "none")
        ELSE SpectraResult("ok", template_maker(klass, self), "input_meta",
                           IF self.mockformat = "gaussianfield" THEN "data" ELSE "unset")
    ELSE IF self.cls = "BGSMaker" THEN
        IF no_spectra THEN SpectraResult("ok", "GMM_nospectra", "none", "none")
        ELSE SpectraResult("ok", "BGS", "input_meta",
                           IF self.mockformat \in {"durham_mxxl_hdf5", "bgs-gama"} THEN "query"
                           ELSE IF self.mockformat = "gaussianfield" THEN "random"
                           ELSE "unset")
    ELSE IF self.mockformat = "mws_wd"
         THEN SpectraResult("ok", IF no_spectra THEN "wd_template_photometry" ELSE "WD",
                            "input_meta", IF no_spectra THEN "none" ELSE "data")
         \* flux, meta, objmeta and allsubtype are assigned inside the if only
         ELSE SpectraResult("UnboundLocalError", "none", "none", "none")

NoInstance == [cls |-> "none", use_simqso |-> TRUE, mockformat |-> "unset",
               default_mockfile |-> "unset"]

SessionStart ==
    /\ cattr = [template_maker |-> "None"]
    /\ inst = NoInstance
    /\ ret = NoCall
    /\ ncall = 0

SessionIdle ==
    /\ cattr = [template_maker |-> "off"]
    /\ inst = NoInstance
    /\ ret = NoCall
    /\ ncall = 0

\* Maker(use_simqso=...): a new instance; QSOMaker.template_maker is set by the
\* first QSOMaker only ("if self.template_maker is None")
Maker_init ==
    /\ ncall < MaxCalls
    /\ \E cls \in SessionMakers, simqso \in BOOLEAN :
        /\ cls # "QSOMaker" => simqso
        /\ inst' = [cls |-> cls, use_simqso |-> simqso, mockformat |-> "unset",
                    default_mockfile |-> "unset"]
        /\ cattr' = IF cls = "QSOMaker" /\ cattr.template_maker = "None"
                    THEN [template_maker |-> IF simqso THEN "SIMQSO" ELSE "QSO"]
                    ELSE cattr
    /\ ret' = [NoCall EXCEPT !.op = "init", !.status = "ok"]
    /\ ncall' = ncall + 1
    /\ UNCHANGED <<pipelinevars, loadvars, samplevars, selectvars, vdispvars, checkvars, qsovars, lrgvars>>

\* self.read(mockfile=..., mockformat=...)
Maker_read ==
    /\ ncall < MaxCalls
    /\ inst.cls # "none"
    /\ \E fmt \in MockFormats, mockfile \in {"None", "given.fits"} :
        /\ inst' = read_result(inst, fmt, mockfile).self
        /\ ret' = read_result(inst, fmt, mockfile).ret
    /\ ncall' = ncall + 1
    /\ UNCHANGED cattr
    /\ UNCHANGED <<pipelinevars, loadvars, samplevars, selectvars, vdispvars, checkvars, qsovars, lrgvars>>

\* self.make_spectra(data, no_spectra=...), on data read earlier
Maker_make_spectra ==
    /\ ncall < MaxCalls
    /\ inst.mockformat # "unset"
    /\ \E no_spectra \in BOOLEAN :
        ret' = [spectra_result(cattr, inst, no_spectra) EXCEPT !.no_spectra = no_spectra]
    /\ ncall' = ncall + 1
    /\ UNCHANGED <<cattr, inst>>
    /\ UNCHANGED <<pipelinevars, loadvars, samplevars, selectvars, vdispvars, checkvars, qsovars, lrgvars>>

\* C27: a QSOMaker makes its spectra with the template service of its own
\* use_simqso, whatever QSOMaker instances were constructed before it
C27_OwnTemplateService ==
    (ret.op = "make_spectra" /\ inst.cls = "QSOMaker" /\ ~ret.no_spectra) =>
        ret.service = (IF inst.use_simqso THEN "SIMQSO" ELSE "QSO")

\* C28: a read that raises because the mock format is not recognised leaves
\* self.mockformat as the last successful read set it, and make_spectra then
\* does what it would have done before the failed read
C28_FailedReadKeepsFormat ==
    [][(ret'.op = "read" /\ ret'.status = "ValueError" /\ ncall' = ncall + 1
            /\ FormatReader(inst.cls, inst.mockformat) # "none") =>
          /\ inst'.mockformat = inst.mockformat
          /\ \A ns \in BOOLEAN :
                spectra_result(cattr', inst', ns) = spectra_result(cattr, inst, ns)]_vars

\* C29: when read is called without a mockfile, the file it opens is the
\* default file of the format named in that call
C29_DefaultOfThisFormat ==
    (ret.op = "read" /\ ret.status = "ok" /\ ret.mockfile = "None") =>
        ret.opened = FormatDefault(inst.cls, lower(ret.format))

----------------------------------------------------------------------------
(* isLRGpass_north / isLRGpass_south: the one-pass and two-pass flags *)

\* z-band fluxes in nanomaggies, in increasing order: the thresholds of the
\* cuts as Python evaluates them, and values on both sides of each.
\* 10**(0.4*(22.5-20.4)) is 6.918309709189375 and 10**((22.5-20.4)/2.5) is
\* 6.918309709189373; 10**(0.4*(22.5-18)) and 10**((22.5-18.0)/2.5) are both
\* 63.09573444801933; 10**((22.5-20.0)/2.5) is 10.0
ZFluxLevels ==
    << "-1.0", "5.0", "6.918309709189373", "6.918309709189375", "8.0", "10.0",
       "30.0", "63.09573444801933", "100.0" >>

\* the position of a flux in that order, so that fluxes compare as integers
Level(flux) == CHOOSE i \in 1..Len(ZFluxLevels) : ZFluxLevels[i] = flux

\* isLRG_colors_south (isLRG_colors_north calls it): the two cuts on zflux
\* alone, z < 20.4 and z > 18; colorcuts is the outcome of the cuts that also
\* involve rflux, gflux and w1flux
isLRG_colors(a) ==
    /\ (IF a.primary = "None" THEN TRUE ELSE a.primary = "True")
    /\ a.zflux > Level("6.918309709189375")
    /\ a.zflux < Level("63.09573444801933")
    /\ a.colorcuts

\* isLRG_south, which isLRG calls by default: the quality cuts, zflux > 0 and
\* the colours; quality is the outcome of the signal-to-noise and rflux cuts
isLRG(a) ==
    /\ (IF a.primary = "None" THEN TRUE ELSE a.primary = "True")
    /\ a.quality
    /\ a.zflux > Level("-1.0")
    /\ isLRG_colors(a)

lrg1pass_Inclusive(lrg, zflux) ==
    lrg /\ zflux >= Level("10.0") /\ zflux <= Level("63.09573444801933")

\* one-pass LRGs are 18 <= z < 20
lrg1pass(lrg, zflux) ==
    lrg /\ zflux > Level("10.0") /\ zflux <= Level("63.09573444801933")

\* two-pass LRGs are 20 <= z < 20.4
lrg2pass(lrg, zflux) ==
    lrg /\ zflux > Level("6.918309709189373") /\ zflux <= Level("10.0")

\* the body of isLRGpass_north and of isLRGpass_south: (lrg, lrg1pass, lrg2pass)
isLRGpass_result(a) ==
    LET lrg == (IF a.primary = "None" THEN TRUE ELSE a.primary = "True") /\ isLRG(a)
    IN  [status |-> "returned", lrg |-> lrg,
         lrg1pass |-> lrg1pass(lrg, a.zflux), lrg2pass |-> lrg2pass(lrg, a.zflux)]

LRGStart ==
    /\ larg \in { [zflux |-> z, colorcuts |-> c, quality |-> q, primary |-> p, south |-> s] :
                    z \in 1..Len(ZFluxLevels), c \in BOOLEAN, q \in BOOLEAN,
                    p \in {"None", "True", "False"}, s \in BOOLEAN }
    /\ lres = [status |-> "none", lrg |-> FALSE, lrg1pass |-> FALSE, lrg2pass |-> FALSE]

LRGIdle ==
    /\ larg = [south |-> TRUE]
    /\ lres = [status |-> "off", lrg |-> FALSE, lrg1pass |-> FALSE, lrg2pass |-> FALSE]

\* one call of isLRGpass_north (south=False) or isLRGpass_south, for one object
isLRGpass ==
    /\ lres.status = "none"
    /\ lres' = isLRGpass_result(larg)
    /\ UNCHANGED larg
    /\ UNCHANGED <<pipelinevars, loadvars, samplevars, selectvars, vdispvars, checkvars, qsovars, sessionvars>>

\* C30: an object selected as an LRG is flagged as exactly one of one-pass and
\* two-pass, and no object is flagged without being selected as an LRG
C30_ExactlyOnePass ==
    lres.status = "returned" =>
        /\ lres.lrg => (lres.lrg1pass # lres.lrg2pass)
        /\ (lres.lrg1pass \/ lres.lrg2pass) => lres.lrg

\* an LRG with z = 20.0 exactly (zflux = 10.0) is two-pass and not one-pass
C30_Witness ==
    /\ lres.status = "returned"
    /\ larg.zflux = Level("10.0")
    /\ lres.lrg
    /\ lres.lrg2pass
    /\ ~lres.lrg1pass

----------------------------------------------------------------------------
(* Specifications *)

InitGMM == GMMStart /\ ReadIdle /\ MakerIdle /\ CutsIdle /\ LoadIdle /\ SampleIdle /\ SelectIdle /\ VdispIdle /\ ChecksIdle /\ QSOIdle /\ SessionIdle /\ LRGIdle
NextGMM == Allocate
SpecGMM == InitGMM /\ [][NextGMM]_vars

InitRead == GMMIdle /\ ReadStart /\ MakerIdle /\ CutsIdle /\ LoadIdle /\ SampleIdle /\ SelectIdle /\ VdispIdle /\ ChecksIdle /\ QSOIdle /\ SessionIdle /\ LRGIdle
NextRead == readmock
SpecRead == InitRead /\ [][NextRead]_vars

InitMaker == GMMIdle /\ ReadIdle /\ MakerStart /\ CutsIdle /\ LoadIdle /\ SampleIdle /\ SelectIdle /\ VdispIdle /\ ChecksIdle /\ QSOIdle /\ SessionIdle /\ LRGIdle
NextMaker == Construct \/ read \/ make_spectra \/ select_targets \/ Rerun
SpecMaker == InitMaker /\ [][NextMaker]_vars

InitCuts == GMMIdle /\ ReadIdle /\ MakerIdle /\ CutsStart /\ LoadIdle /\ SampleIdle /\ SelectIdle /\ VdispIdle /\ ChecksIdle /\ QSOIdle /\ SessionIdle /\ LRGIdle
NextCuts == apply_cuts
SpecCuts == InitCuts /\ [][NextCuts]_vars

InitLoad == GMMIdle /\ ReadIdle /\ MakerIdle /\ CutsIdle /\ LoadStart /\ SampleIdle /\ SelectIdle /\ VdispIdle /\ ChecksIdle /\ QSOIdle /\ SessionIdle /\ LRGIdle
NextLoad == ConstructMaker \/ SampleLookup
SpecLoad == InitLoad /\ [][NextLoad]_vars

InitSample == GMMIdle /\ ReadIdle /\ MakerIdle /\ CutsIdle /\ LoadIdle /\ SampleStart /\ SelectIdle /\ VdispIdle /\ ChecksIdle /\ QSOIdle /\ SessionIdle /\ LRGIdle
NextSample == sample
SpecSample == InitSample /\ [][NextSample]_vars

InitSelect == GMMIdle /\ ReadIdle /\ MakerIdle /\ CutsIdle /\ LoadIdle /\ SampleIdle /\ SelectStart /\ VdispIdle /\ ChecksIdle /\ QSOIdle /\ SessionIdle /\ LRGIdle
NextSelect == map_file \/ sv_select_targets
SpecSelect == InitSelect /\ [][NextSelect]_vars

InitVdisp == GMMIdle /\ ReadIdle /\ MakerIdle /\ CutsIdle /\ LoadIdle /\ SampleIdle /\ SelectIdle /\ VdispStart /\ ChecksIdle /\ QSOIdle /\ SessionIdle /\ LRGIdle
NextVdisp == sample_vdisp
SpecVdisp == InitVdisp /\ [][NextVdisp]_vars

InitChecks == GMMIdle /\ ReadIdle /\ MakerIdle /\ CutsIdle /\ LoadIdle /\ SampleIdle /\ SelectIdle /\ VdispIdle /\ ChecksStart /\ QSOIdle /\ SessionIdle /\ LRGIdle
NextChecks == readmock_checks
SpecChecks == InitChecks /\ [][NextChecks]_vars

InitQSO == GMMIdle /\ ReadIdle /\ MakerIdle /\ CutsIdle /\ LoadIdle /\ SampleIdle /\ SelectIdle /\ VdispIdle /\ ChecksIdle /\ QSOStart /\ SessionIdle /\ LRGIdle
NextQSO == isQSO_cuts
SpecQSO == InitQSO /\ [][NextQSO]_vars

InitSession == GMMIdle /\ ReadIdle /\ MakerIdle /\ CutsIdle /\ LoadIdle /\ SampleIdle /\ SelectIdle /\ VdispIdle /\ ChecksIdle /\ QSOIdle /\ SessionStart /\ LRGIdle
NextSession == Maker_init \/ Maker_read \/ Maker_make_spectra
SpecSession == InitSession /\ [][NextSession]_vars

InitLRG == GMMIdle /\ ReadIdle /\ MakerIdle /\ CutsIdle /\ LoadIdle /\ SampleIdle /\ SelectIdle /\ VdispIdle /\ ChecksIdle /\ QSOIdle /\ SessionIdle /\ LRGStart
NextLRG == isLRGpass
SpecLRG == InitLRG /\ [][NextLRG]_vars

Init == InitGMM \/ InitRead \/ InitMaker \/ InitCuts \/ InitLoad \/ InitSample \/ InitSelect \/ InitVdisp \/ InitChecks \/ InitQSO \/ InitSession \/ InitLRG
Next == NextGMM \/ NextRead \/ NextMaker \/ NextCuts \/ NextLoad \/ NextSample \/ NextSelect \/ NextVdisp \/ NextChecks \/ NextQSO \/ NextSession \/ NextLRG
Spec == Init /\ [][Next]_vars
====
